---------------------------- MODULE Spec2Model ----------------------------
(***************************************************************************)
(* A model of the openclaw command-line agent (cli-rust):                  *)
(*   - the SSE frame parser            (llm/streaming.rs),                 *)
(*   - the provider event translators  (llm/anthropic.rs, llm/openai.rs,   *)
(*                                      llm/ollama.rs),                    *)
(*   - the agent turn loop             (agent/mod.rs),                     *)
(*   - the context compactor           (agent/context.rs).                 *)
(*                                                                         *)
(* Strings are sequences.  Byte streams are sequences of byte values       *)
(* (0..255); decoded text is a sequence of Unicode code points.  An        *)
(* Option<T> is a sequence of length at most one: None is <<>>, Some(v) is *)
(* <<v>>.                                                                  *)
(***************************************************************************)
EXTENDS Integers, Sequences, FiniteSets, TLC

VARIABLES
    inner,      \* SseStream.inner: the bytes the transport has not delivered yet
    inner_done, \* TRUE once the inner stream has returned None
    sse,        \* the SseStream struct
    sse_out,    \* the items poll_next has yielded so far, in order
    sse_src,    \* the whole byte stream of the response (fixed at construction)
    sse_eof,    \* TRUE once poll_next has returned None
    sse_torn,   \* TRUE once a chunk has ended inside a multi-byte character
    anth,       \* the AnthropicEventStream struct
    anth_in,    \* the items its inner SSE stream has delivered so far, in order
    anth_out,   \* the items its poll_next has yielded so far, in order
    anth_eof,   \* TRUE once its poll_next has returned None
    oai,        \* the OpenAiEventStream struct
    oai_in,     \* the items its inner SSE stream has delivered so far, in order
    oai_out,    \* the items its poll_next has yielded so far, in order
    oai_eof,    \* TRUE once its poll_next has returned None
    oll,        \* the OllamaNdjsonStream struct
    oll_inner,  \* byte_stream: the text the transport has not delivered yet
    oll_src,    \* the whole body of the response (fixed at construction)
    oll_out,    \* the items its poll_next has yielded so far, in order
    oll_eof,    \* TRUE once its poll_next has returned None
    uuids,      \* the number of UUIDs generated so far
    provider,   \* which LlmProvider run_agent_loop is given
    model,      \* config.model
    tail,       \* what that provider answers once the first MaxScripted calls are past
    chat_calls, \* the number of stream_chat calls made so far in the run
    pc,         \* where run_agent_loop is
    turn,       \* _turn, the index of the current turn
    session,    \* Session.messages
    total_tool_calls, \* total_tool_calls
    usage,      \* usage
    request,    \* the turn's ChatRequest (its messages)
    attempt,    \* attempt, the index of the current acquisition attempt
    stream,     \* the event stream being read (the turn's, or the summarizer's): the
                \* items not yet yielded, and how it ends
    summary,    \* summarize_via_llm: summary, the text collected so far
    text_buf,   \* text_buf
    tool_calls, \* tool_calls, the turn's PendingToolCalls
    stop_reason, \* stop_reason
    exec_i,     \* the position of the tool loop in tool_calls
    result,     \* what run_agent_loop has returned, None while it runs
    consumed,   \* the events the turn's consumption loop has received, in order
    log,        \* the provider calls, sleeps and tool executions of the run, in order
    command,    \* is_command_allowed: the command
    allowlist,  \* is_command_allowed: the allowlist
    security,   \* is_command_allowed: the security mode
    allowed,    \* what is_command_allowed has returned, None before the call
    ctrl_c_count, \* main: ctrl_c_count, the AtomicU8 of the Ctrl+C handler
    handler,    \* the handler thread: None when idle, Some(count) between its fetch_add
                \* and the end of the invocation
    exit_code   \* the code the process has exited with, None while it runs

sseVars == <<inner, inner_done, sse, sse_out, sse_src, sse_eof, sse_torn>>
anthVars == <<anth, anth_in, anth_out, anth_eof>>

oaiVars == <<oai, oai_in, oai_out, oai_eof>>

ollVars == <<oll, oll_inner, oll_src, oll_out, oll_eof, uuids>>

loopVars ==
    <<provider, tail, model, chat_calls, pc, turn, session, total_tool_calls, usage, request,
      attempt, stream, summary, text_buf, tool_calls, stop_reason, exec_i, result, consumed,
      log>>

polVars == <<command, allowlist, security, allowed>>
sigVars == <<ctrl_c_count, handler, exit_code>>

vars == <<sseVars, anthVars, oaiVars, ollVars, loopVars, polVars, sigVars>>

\* the variables of every other component, for each component
notSse == <<anthVars, oaiVars, ollVars, loopVars, polVars, sigVars>>
notAnth == <<sseVars, oaiVars, ollVars, loopVars, polVars, sigVars>>
notOai == <<sseVars, anthVars, ollVars, loopVars, polVars, sigVars>>
notOll == <<sseVars, anthVars, oaiVars, loopVars, polVars, sigVars>>
notLoop == <<sseVars, anthVars, oaiVars, ollVars, polVars, sigVars>>
notPol == <<sseVars, anthVars, oaiVars, ollVars, loopVars, sigVars>>
notSig == <<sseVars, anthVars, oaiVars, ollVars, loopVars, polVars>>

None == <<>>
Some(v) == <<v>>

(***************************************************************************)
(* Generic sequence helpers                                                *)
(***************************************************************************)
RECURSIVE Flatten(_)
Flatten(ss) == IF ss = <<>> THEN <<>> ELSE Head(ss) \o Flatten(Tail(ss))

RECURSIVE Join(_, _)
\* slice.join(sep)
Join(ss, sep) ==
    IF ss = <<>> THEN <<>>
    ELSE IF Len(ss) = 1 THEN ss[1]
    ELSE ss[1] \o sep \o Join(Tail(ss), sep)

\* index (1-based) of the first element equal to c, 0 when there is none: str::find
Find(s, c) ==
    IF \E i \in 1..Len(s) : s[i] = c
    THEN CHOOSE i \in 1..Len(s) : s[i] = c /\ \A j \in 1..(i - 1) : s[j] # c
    ELSE 0

StartsWith(s, p) == Len(s) >= Len(p) /\ SubSeq(s, 1, Len(p)) = p

RECURSIVE TrimEndMatches(_, _)
\* str::trim_end_matches(c): every trailing c is removed
TrimEndMatches(s, c) ==
    IF s # <<>> /\ s[Len(s)] = c THEN TrimEndMatches(SubSeq(s, 1, Len(s) - 1), c) ELSE s

(***************************************************************************)
(* Bytes and characters                                                    *)
(***************************************************************************)
NL == 10
CR == 13
SPACE == 32
COLON == 58
REPLACEMENT == 65533                 \* U+FFFD
S_data == <<100, 97, 116, 97>>       \* "data"
S_event == <<101, 118, 101, 110, 116>> \* "event"
S_id == <<105, 100>>                 \* "id"
S_retry == <<114, 101, 116, 114, 121>> \* "retry"

IsCont(b) == b >= 128 /\ b <= 191

\* The second byte a lead byte admits (the ranges of core::str::validations).
SecondOk(b1, b2) ==
    CASE b1 = 224 -> b2 >= 160 /\ b2 <= 191
      [] b1 = 237 -> b2 >= 128 /\ b2 <= 159
      [] b1 = 240 -> b2 >= 144 /\ b2 <= 191
      [] b1 = 244 -> b2 >= 128 /\ b2 <= 143
      [] OTHER -> IsCont(b2)

\* UTF8_CHAR_WIDTH
Utf8Width(b) ==
    IF b < 128 THEN 1
    ELSE IF b >= 194 /\ b <= 223 THEN 2
    ELSE IF b >= 224 /\ b <= 239 THEN 3
    ELSE IF b >= 240 /\ b <= 244 THEN 4
    ELSE 0

\* One step of the lossy decoder at the head of bs: <<code point, bytes consumed>>.
\* An ill-formed or truncated sequence yields U+FFFD for its maximal valid prefix.
DecodeOne(bs) ==
    LET b1 == bs[1]
        w == Utf8Width(b1)
        n == Len(bs)
    IN  IF w = 1 THEN <<b1, 1>>
        ELSE IF w = 0 THEN <<REPLACEMENT, 1>>
        ELSE IF n < 2 \/ ~SecondOk(b1, bs[2]) THEN <<REPLACEMENT, 1>>
        ELSE IF w = 2 THEN <<(b1 - 192) * 64 + (bs[2] - 128), 2>>
        ELSE IF n < 3 \/ ~IsCont(bs[3]) THEN <<REPLACEMENT, 2>>
        ELSE IF w = 3
             THEN <<(b1 - 224) * 4096 + (bs[2] - 128) * 64 + (bs[3] - 128), 3>>
        ELSE IF n < 4 \/ ~IsCont(bs[4]) THEN <<REPLACEMENT, 3>>
        ELSE <<(b1 - 240) * 262144 + (bs[2] - 128) * 4096
                 + (bs[3] - 128) * 64 + (bs[4] - 128), 4>>

RECURSIVE from_utf8_lossy(_)
\* String::from_utf8_lossy: the text of a byte slice, decoded on its own
from_utf8_lossy(bs) ==
    IF bs = <<>> THEN <<>>
    ELSE LET d == DecodeOne(bs)
         IN  <<d[1]>> \o from_utf8_lossy(SubSeq(bs, d[2] + 1, Len(bs)))

(***************************************************************************)
(* SSE frame parser (llm/streaming.rs)                                     *)
(***************************************************************************)
SseEvent(t, d) == [event_type |-> t, data |-> d]
Ok(v) == [ok |-> TRUE, val |-> v]
Err(e) == [ok |-> FALSE, val |-> e]

\* SseStream::new
SseNew ==
    [buffer |-> <<>>, current_event_type |-> None, current_data |-> <<>>,
     pending_events |-> <<>>]

\* The event the accumulators hold: event_type.take(), current_data.join("\n")
SseAccumulated(st) == SseEvent(st.current_event_type, Join(st.current_data, <<NL>>))

\* a boundary that emits an event whether or not data has been accumulated
SseBoundaryAlways(st) ==
    [st EXCEPT !.pending_events = Append(@, SseAccumulated(st)),
               !.current_event_type = None,
               !.current_data = <<>>]

\* SseStream::process_line, the branch of an empty line
SseBoundary(st) ==
    IF st.current_data # <<>>
    THEN [st EXCEPT !.pending_events = Append(@, SseAccumulated(st)),
                    !.current_event_type = None,
                    !.current_data = <<>>]
    ELSE st

\* value.strip_prefix(' ').unwrap_or(value)
StripOneSpace(v) == IF v # <<>> /\ v[1] = SPACE THEN Tail(v) ELSE v

\* SseStream::process_line, the split of a line into (field, value)
SseField(line) ==
    LET pos == Find(line, COLON)
    IN  IF pos = 0 THEN <<line, <<>>>>
        ELSE <<SubSeq(line, 1, pos - 1), StripOneSpace(SubSeq(line, pos + 1, Len(line)))>>

\* SseStream::process_line
SseProcessLine(st, line) ==
    IF line = <<>> THEN SseBoundary(st)
    ELSE IF line[1] = COLON THEN st
    ELSE LET fv == SseField(line)
         IN  IF fv[1] = S_event THEN [st EXCEPT !.current_event_type = Some(fv[2])]
             ELSE IF fv[1] = S_data THEN [st EXCEPT !.current_data = Append(@, fv[2])]
             ELSE st

RECURSIVE SseDrainLines(_)
\* SseStream::process_bytes, the loop over the complete lines of the buffer
SseDrainLines(st) ==
    LET p == Find(st.buffer, NL)
    IN  IF p = 0 THEN st
        ELSE SseDrainLines(
                 SseProcessLine(
                     [st EXCEPT !.buffer = SubSeq(st.buffer, p + 1, Len(st.buffer))],
                     TrimEndMatches(SubSeq(st.buffer, 1, p - 1), CR)))

\* a process_bytes that drops the unterminated rest of the chunk before it
SseProcessBytesFresh(st, bytes) ==
    SseDrainLines([st EXCEPT !.buffer = from_utf8_lossy(bytes)])

\* SseStream::process_bytes
SseProcessBytes(st, bytes) ==
    SseDrainLines([st EXCEPT !.buffer = @ \o from_utf8_lossy(bytes)])


\* SseStream::poll_next on end of the inner stream: <<struct, yielded item or None>>
SseFlush(st) ==
    IF st.current_data # <<>>
    THEN <<[st EXCEPT !.current_event_type = None, !.current_data = <<>>],
           Some(Ok(SseAccumulated(st)))>>
    ELSE <<st, None>>

RECURSIVE SseRun(_, _)
\* The events parse_sse_stream yields for a response delivered as the chunks cs and
\* then closed: poll_next called until it returns None.
SseRun(st, cs) ==
    IF st.pending_events # <<>>
    THEN <<Head(st.pending_events)>>
             \o SseRun([st EXCEPT !.pending_events = Tail(@)], cs)
    ELSE IF cs # <<>> THEN SseRun(SseProcessBytes(st, Head(cs)), Tail(cs))
    ELSE LET f == SseFlush(st)
         IN  IF f[2] = None THEN <<>> ELSE <<f[2][1].val>> \o SseRun(f[1], cs)

(***************************************************************************)
(* The responses the SSE parser is run on                                  *)
(***************************************************************************)
MaxSsePieces == 3

B_x == 120                           \* 'x'
B_c == 99                            \* 'c'
E_ACUTE == <<195, 169>>              \* U+00E9 in UTF-8

\* the pieces a response is made of: terminated lines, and one whole event
SsePieces ==
    { S_data \o <<COLON, SPACE>> \o E_ACUTE \o <<NL>>,   \* "data: é\n"
      S_event \o <<COLON, B_x>> \o <<NL>>,               \* "event:x\n"
      <<NL>>,                                            \* "\n"
      <<COLON, B_c, NL>>,                                \* ":c\n"
      S_id \o <<COLON, B_x, NL>> \o S_retry \o <<COLON, B_x, NL>>,  \* "id:x\nretry:x\n"
      S_data \o <<COLON, B_x, CR, NL, CR, NL>> }         \* "data:x\r\n\r\n"

\* the transport errors the inner stream may yield (reqwest::Error::to_string), and how
\* many of them one response may meet
TransportErrors == {"connection reset"}
MaxSseErrors == 1

\* what may follow the last piece: nothing, or an unterminated line
SseTails == { <<>>, S_data \o <<COLON, B_x>> }           \* "", "data:x"

SseStreams ==
    { Flatten(ps) \o t :
        ps \in UNION { [1..n -> SsePieces] : n \in 0..MaxSsePieces }, t \in SseTails }

SseStart(src) ==
    /\ sse_src = src
    /\ inner = src
    /\ inner_done = FALSE
    /\ sse = SseNew
    /\ sse_out = <<>>
    /\ sse_eof = FALSE
    /\ sse_torn = FALSE

\* poll_next: a buffered event is returned first
SsePollPending ==
    /\ ~sse_eof
    /\ sse.pending_events # <<>>
    /\ sse_out' = Append(sse_out, Ok(Head(sse.pending_events)))
    /\ sse' = [sse EXCEPT !.pending_events = Tail(@)]
    /\ UNCHANGED <<notSse, inner, inner_done, sse_src, sse_eof, sse_torn>>

\* poll_next: the inner stream delivers the next k bytes
SsePollChunk ==
    /\ ~sse_eof
    /\ sse.pending_events = <<>>
    /\ \E k \in 1..Len(inner) :
         LET st == SseProcessBytes(sse, SubSeq(inner, 1, k))
         IN  /\ inner' = SubSeq(inner, k + 1, Len(inner))
             /\ IF st.pending_events # <<>>
                THEN /\ sse_out' = Append(sse_out, Ok(Head(st.pending_events)))
                     /\ sse' = [st EXCEPT !.pending_events = Tail(@)]
                ELSE /\ sse_out' = sse_out
                     /\ sse' = st
             /\ sse_torn' = (sse_torn \/ (k < Len(inner) /\ inner[k + 1] \in 128..191))
    /\ UNCHANGED <<notSse, inner_done, sse_src, sse_eof>>

\* poll_next: the inner stream yields an error, at any point before its end; the error is
\* returned with its text, the struct and the inner stream are left as they are and the
\* next poll_next polls the inner stream again
SsePollErr ==
    /\ ~sse_eof
    /\ sse.pending_events = <<>>
    /\ ~inner_done
    /\ Cardinality({i \in 1..Len(sse_out) : ~sse_out[i].ok}) < MaxSseErrors
    /\ \E e \in TransportErrors :
         sse_out' = Append(sse_out, Err(<<"SSE stream error: ", e>>))
    /\ UNCHANGED <<notSse, inner, inner_done, sse, sse_src, sse_eof, sse_torn>>

\* poll_next: the inner stream has ended
SsePollEnd ==
    /\ ~sse_eof
    /\ sse.pending_events = <<>>
    /\ inner = <<>>
    /\ LET f == SseFlush(sse)
       IN  /\ sse' = f[1]
           /\ sse_out' = sse_out \o f[2]
           /\ sse_eof' = (f[2] = None)
    /\ inner_done' = TRUE
    /\ UNCHANGED <<notSse, inner, sse_src, sse_torn>>

SseNext == SsePollPending \/ SsePollChunk \/ SsePollErr \/ SsePollEnd

(***************************************************************************)
(* JSON values (serde_json::Value) and texts                               *)
(*                                                                         *)
(* A text handled by the translators and the turn loop is a sequence of    *)
(* atoms (TLA+ strings); concatenation is \o.  serde_json::from_str is the *)
(* table JsonDocs of the texts the model uses; any other text does not     *)
(* parse.                                                                  *)
(***************************************************************************)
JNull == [t |-> "null"]
JStr(x) == [t |-> "str", s |-> x]
JNum(x) == [t |-> "num", n |-> x]
\* an object: f is the set of its <<key, value>> members
JObj(f) == [t |-> "obj", f |-> f]
JArr(a) == [t |-> "arr", a |-> a]

\* Value::index: v[key], Null when v is no object or has no such member
Idx(v, k) ==
    IF v.t = "obj" /\ \E m \in v.f : m[1] = k
    THEN (CHOOSE m \in v.f : m[1] = k)[2]
    ELSE JNull

\* Value::index by position: v[i] (0-based), Null when out of range
At(v, i) == IF v.t = "arr" /\ i + 1 <= Len(v.a) THEN v.a[i + 1] ELSE JNull

as_str(v) == IF v.t = "str" THEN Some(v.s) ELSE None
as_u64(v) == IF v.t = "num" /\ v.n >= 0 THEN Some(v.n) ELSE None
as_object(v) == IF v.t = "obj" THEN Some(v) ELSE None
as_array(v) == IF v.t = "arr" THEN Some(v.a) ELSE None
unwrap_or(o, d) == IF o = None THEN d ELSE o[1]

\* the argument texts of tool calls, as the fragments they are streamed in
ARG_OPEN == "{\"command\":"
ARG_CLOSE == "\"ls\"}"
ARG_EMPTY == "{}"
ArgsLs == JObj({<<"command", JStr(<<"ls">>)>>})

(***************************************************************************)
(* AgentEvent (agent/types.rs, agent/mod.rs)                               *)
(***************************************************************************)
EndTurn == "EndTurn"
ToolUseStop == "ToolUse"
MaxTokens == "MaxTokens"

TextDelta(x) == [type |-> "TextDelta", text |-> x]
Thinking(x) == [type |-> "Thinking", text |-> x]
ToolUse(id, name, input) == [type |-> "ToolUse", id |-> id, name |-> name, input |-> input]
MessageEnd(r) == [type |-> "MessageEnd", stop_reason |-> r]
UsageUpdate(i, o, cc, cr) ==
    [type |-> "UsageUpdate", input_tokens |-> i, output_tokens |-> o,
     cache_creation_input_tokens |-> cc, cache_read_input_tokens |-> cr]

IsOk(item, ty) == item.ok /\ item.val.type = ty

(***************************************************************************)
(* Anthropic event translator (llm/anthropic.rs)                           *)
(***************************************************************************)
\* The data texts of the SSE events the translator is run on, with the JSON
\* each parses to.
A_START_TOOL == "{\"content_block\":{\"type\":\"tool_use\",\"id\":\"t1\",\"name\":\"bash\"}}"
A_START_THINKING == "{\"content_block\":{\"type\":\"thinking\"}}"
A_START_TEXT == "{\"content_block\":{\"type\":\"text\"}}"
A_TEXT_DELTA == "{\"delta\":{\"type\":\"text_delta\",\"text\":\"Hello\"}}"
A_THINKING_DELTA == "{\"delta\":{\"type\":\"thinking_delta\",\"thinking\":\"hm\"}}"
A_JSON_DELTA_1 == "{\"delta\":{\"type\":\"input_json_delta\",\"partial_json\":\"{\\\"command\\\":\"}}"
A_JSON_DELTA_2 == "{\"delta\":{\"type\":\"input_json_delta\",\"partial_json\":\"\\\"ls\\\"}\"}}"
A_MSG_START == "{\"message\":{\"usage\":{\"input_tokens\":100}}}"
A_MSG_DELTA_TOOL == "{\"delta\":{\"stop_reason\":\"tool_use\"},\"usage\":{\"output_tokens\":5}}"
A_MSG_DELTA_END == "{\"delta\":{\"stop_reason\":\"end_turn\"}}"
A_ERROR == "{\"error\":{\"message\":\"boom\"}}"
A_EMPTY == "{}"
A_GARBAGE == "{\"delta\":"

Member(k, v) == <<k, v>>
TypedObj(ty, rest) == JObj({Member("type", JStr(<<ty>>))} \cup rest)

\* serde_json::from_str::<Value> on the texts above and on tool-argument texts
JsonDocs ==
    { <<<<A_START_TOOL>>,
        JObj({Member("content_block",
                 TypedObj("tool_use", {Member("id", JStr(<<"t1">>)),
                                       Member("name", JStr(<<"bash">>))}))})>>,
      <<<<A_START_THINKING>>, JObj({Member("content_block", TypedObj("thinking", {}))})>>,
      <<<<A_START_TEXT>>, JObj({Member("content_block", TypedObj("text", {}))})>>,
      <<<<A_TEXT_DELTA>>,
        JObj({Member("delta", TypedObj("text_delta", {Member("text", JStr(<<"Hello">>))}))})>>,
      <<<<A_THINKING_DELTA>>,
        JObj({Member("delta",
                 TypedObj("thinking_delta", {Member("thinking", JStr(<<"hm">>))}))})>>,
      <<<<A_JSON_DELTA_1>>,
        JObj({Member("delta",
                 TypedObj("input_json_delta",
                          {Member("partial_json", JStr(<<ARG_OPEN>>))}))})>>,
      <<<<A_JSON_DELTA_2>>,
        JObj({Member("delta",
                 TypedObj("input_json_delta",
                          {Member("partial_json", JStr(<<ARG_CLOSE>>))}))})>>,
      <<<<A_MSG_START>>,
        JObj({Member("message",
                 JObj({Member("usage", JObj({Member("input_tokens", JNum(100))}))}))})>>,
      <<<<A_MSG_DELTA_TOOL>>,
        JObj({Member("delta", JObj({Member("stop_reason", JStr(<<"tool_use">>))})),
              Member("usage", JObj({Member("output_tokens", JNum(5))}))})>>,
      <<<<A_MSG_DELTA_END>>,
        JObj({Member("delta", JObj({Member("stop_reason", JStr(<<"end_turn">>))}))})>>,
      <<<<A_ERROR>>,
        JObj({Member("error", JObj({Member("message", JStr(<<"boom">>))}))})>>,
      <<<<A_EMPTY>>, JObj({})>>,
      <<<<ARG_EMPTY>>, JObj({})>>,
      <<<<ARG_OPEN, ARG_CLOSE>>, ArgsLs>> }

\* serde_json::from_str::<Value>(text).ok()
from_str(text) ==
    IF \E d \in JsonDocs : d[1] = text
    THEN Some((CHOOSE d \in JsonDocs : d[1] = text)[2])
    ELSE None

\* parse_stop_reason
parse_stop_reason(reason) ==
    CASE reason = <<"end_turn">> -> EndTurn
      [] reason = <<"tool_use">> -> ToolUseStop
      [] reason = <<"max_tokens">> -> MaxTokens
      [] OTHER -> EndTurn

\* AnthropicEventStream::new
AnthNew ==
    [current_tool_id |-> None, current_tool_name |-> None,
     current_tool_input_json |-> <<>>, in_thinking_block |-> FALSE,
     pending |-> <<>>, done |-> FALSE]

\* process_sse_event, "content_block_start"
AnthBlockStart(st, data) ==
    IF data = None THEN st
    ELSE LET block == Idx(data[1], "content_block")
             ty == as_str(Idx(block, "type"))
         IN  IF ty = Some(<<"tool_use">>)
             THEN [st EXCEPT !.current_tool_id = as_str(Idx(block, "id")),
                             !.current_tool_name = as_str(Idx(block, "name")),
                             !.current_tool_input_json = <<>>,
                             !.in_thinking_block = FALSE]
             ELSE IF ty = Some(<<"thinking">>)
             THEN [st EXCEPT !.in_thinking_block = TRUE]
             ELSE [st EXCEPT !.in_thinking_block = FALSE]

\* process_sse_event, "content_block_delta"
AnthBlockDelta(st, data) ==
    IF data = None THEN st
    ELSE LET delta == Idx(data[1], "delta")
             ty == as_str(Idx(delta, "type"))
             text == as_str(Idx(delta, "text"))
             thinking == as_str(Idx(delta, "thinking"))
             json_chunk == as_str(Idx(delta, "partial_json"))
         IN  IF ty = Some(<<"text_delta">>)
             THEN (IF text # None
                   THEN [st EXCEPT !.pending = Append(@, Ok(TextDelta(text[1])))]
                   ELSE st)
             ELSE IF ty = Some(<<"thinking_delta">>)
             THEN (IF thinking # None
                   THEN [st EXCEPT !.pending = Append(@, Ok(Thinking(thinking[1])))]
                   ELSE st)
             ELSE IF ty = Some(<<"input_json_delta">>)
             THEN (IF json_chunk # None
                   THEN [st EXCEPT !.current_tool_input_json = @ \o json_chunk[1]]
                   ELSE st)
             ELSE st

\* a tool input that falls back to null rather than to the empty object
AnthToolInputNull(json) == unwrap_or(from_str(json), JNull)

\* the input of the ToolUse emitted at content_block_stop:
\* serde_json::from_str(..).unwrap_or(Value::Object(Default::default()))
AnthToolInput(json) == unwrap_or(from_str(json), JObj({}))

\* process_sse_event, "content_block_stop"
AnthBlockStop(st) ==
    IF st.in_thinking_block
    THEN [st EXCEPT !.in_thinking_block = FALSE]
    ELSE IF st.current_tool_id # None /\ st.current_tool_name # None
    THEN [st EXCEPT !.current_tool_id = None,
                    !.current_tool_name = None,
                    !.current_tool_input_json = <<>>,
                    !.pending =
                        Append(@, Ok(ToolUse(st.current_tool_id[1], st.current_tool_name[1],
                                             AnthToolInput(st.current_tool_input_json))))]
    ELSE \* both Options are taken before the pattern is matched
         [st EXCEPT !.current_tool_id = None, !.current_tool_name = None]

\* process_sse_event, "message_start"
AnthMessageStart(st, data) ==
    IF data = None THEN st
    ELSE LET usage_part == Idx(Idx(data[1], "message"), "usage")
             input_tokens == unwrap_or(as_u64(Idx(usage_part, "input_tokens")), 0)
             cache_creation ==
                 unwrap_or(as_u64(Idx(usage_part, "cache_creation_input_tokens")), 0)
             cache_read == unwrap_or(as_u64(Idx(usage_part, "cache_read_input_tokens")), 0)
         IN  IF input_tokens > 0 \/ cache_creation > 0 \/ cache_read > 0
             THEN [st EXCEPT !.pending =
                      Append(@, Ok(UsageUpdate(input_tokens, 0, cache_creation, cache_read)))]
             ELSE st

\* process_sse_event, "message_delta"
AnthMessageDelta(st, data) ==
    IF data = None THEN st
    ELSE LET reason == as_str(Idx(Idx(data[1], "delta"), "stop_reason"))
             output_tokens ==
                 unwrap_or(as_u64(Idx(Idx(data[1], "usage"), "output_tokens")), 0)
             end == IF reason # None
                    THEN <<Ok(MessageEnd(parse_stop_reason(reason[1])))>>
                    ELSE <<>>
             use == IF output_tokens > 0
                    THEN <<Ok(UsageUpdate(0, output_tokens, 0, 0))>>
                    ELSE <<>>
         IN  [st EXCEPT !.pending = @ \o end \o use]

\* process_sse_event, "message_stop"
AnthMessageStop(st) == [st EXCEPT !.pending = Append(@, Ok(MessageEnd(EndTurn)))]

\* an "error" event that is ignored like a ping
AnthErrorIgnored(st, data) == st

\* process_sse_event, "error"
AnthError(st, data) ==
    LET message == IF data = None THEN None
                   ELSE as_str(Idx(Idx(data[1], "error"), "message"))
    IN  [st EXCEPT !.pending =
            Append(@, Err(<<"Anthropic stream error: ">>
                            \o unwrap_or(message, <<"unknown error">>)))]

\* AnthropicEventStream::process_sse_event
AnthProcessSseEvent(st, sse_event) ==
    LET event_type == unwrap_or(sse_event.event_type, <<"">>)
        data == from_str(sse_event.data)
    IN  CASE event_type = <<"content_block_start">> -> AnthBlockStart(st, data)
          [] event_type = <<"content_block_delta">> -> AnthBlockDelta(st, data)
          [] event_type = <<"content_block_stop">> -> AnthBlockStop(st)
          [] event_type = <<"message_start">> -> AnthMessageStart(st, data)
          [] event_type = <<"message_delta">> -> AnthMessageDelta(st, data)
          [] event_type = <<"message_stop">> -> AnthMessageStop(st)
          [] event_type = <<"error">> -> AnthError(st, data)
          [] OTHER -> st

\* a pop that leaves the stream open after an error
AnthPopStaysOpen(st) == [st EXCEPT !.pending = Tail(@)]

\* poll_next: pending.remove(0), done once the item is an error
AnthPop(st) ==
    [st EXCEPT !.pending = Tail(@), !.done = ~Head(st.pending).ok]

\* The SSE events the translator is run on
MaxAnthEvents == 4

AnthEv(ty, data) == SseEvent(Some(<<ty>>), <<data>>)
EvStartTool == AnthEv("content_block_start", A_START_TOOL)
EvJson1 == AnthEv("content_block_delta", A_JSON_DELTA_1)
EvJson2 == AnthEv("content_block_delta", A_JSON_DELTA_2)
EvBlockStop == AnthEv("content_block_stop", A_EMPTY)
EvMsgDeltaTool == AnthEv("message_delta", A_MSG_DELTA_TOOL)
EvMsgDeltaEnd == AnthEv("message_delta", A_MSG_DELTA_END)
EvMsgStop == AnthEv("message_stop", A_EMPTY)
EvError == AnthEv("error", A_ERROR)

AnthSseEvents ==
    { EvStartTool,
      AnthEv("content_block_start", A_START_THINKING),
      AnthEv("content_block_start", A_START_TEXT),
      AnthEv("content_block_delta", A_TEXT_DELTA),
      AnthEv("content_block_delta", A_THINKING_DELTA),
      EvJson1, EvJson2, EvBlockStop,
      AnthEv("message_start", A_MSG_START),
      EvMsgDeltaTool, EvMsgDeltaEnd, EvMsgStop, EvError,
      AnthEv("ping", A_GARBAGE) }

AnthIdle ==
    /\ anth = AnthNew
    /\ anth_in = <<>>
    /\ anth_out = <<>>
    /\ anth_eof = FALSE

\* poll_next: a finished stream returns None
AnthPollDone ==
    /\ anth.done
    /\ ~anth_eof
    /\ anth_eof' = TRUE
    /\ UNCHANGED <<notAnth, anth, anth_in, anth_out>>

\* poll_next: a buffered item is returned first
AnthPollPending ==
    /\ ~anth.done
    /\ anth.pending # <<>>
    /\ anth_out' = Append(anth_out, Head(anth.pending))
    /\ anth' = AnthPop(anth)
    /\ UNCHANGED <<notAnth, anth_in, anth_eof>>

\* poll_next: the inner stream delivers an SSE event
AnthPollEvent ==
    /\ ~anth.done
    /\ anth.pending = <<>>
    /\ Len(anth_in) < MaxAnthEvents
    /\ \E ev \in AnthSseEvents :
         LET st == AnthProcessSseEvent(anth, ev)
         IN  /\ anth_in' = Append(anth_in, Ok(ev))
             /\ IF st.pending # <<>>
                THEN /\ anth_out' = Append(anth_out, Head(st.pending))
                     /\ anth' = AnthPop(st)
                ELSE /\ anth_out' = anth_out
                     /\ anth' = st
    /\ UNCHANGED <<notAnth, anth_eof>>

\* poll_next: the inner stream yields an error (a transport read failure)
AnthPollErr ==
    /\ ~anth.done
    /\ anth.pending = <<>>
    /\ anth_in' = Append(anth_in, Err(<<"SSE stream error: ", "connection reset">>))
    /\ anth_out' = Append(anth_out, Err(<<"SSE stream error: ", "connection reset">>))
    /\ anth' = [anth EXCEPT !.done = TRUE]
    /\ UNCHANGED <<notAnth, anth_eof>>

\* poll_next: the inner stream has ended
AnthPollEnd ==
    /\ ~anth.done
    /\ anth.pending = <<>>
    /\ anth' = [anth EXCEPT !.done = TRUE]
    /\ anth_eof' = TRUE
    /\ UNCHANGED <<notAnth, anth_in, anth_out>>

AnthNext ==
    AnthPollDone \/ AnthPollPending \/ AnthPollEvent \/ AnthPollErr \/ AnthPollEnd

(***************************************************************************)
(* OpenAI-compatible event translator (llm/openai.rs)                      *)
(***************************************************************************)
O_TEXT == "{\"choices\":[{\"delta\":{\"content\":\"Hello\"}}]}"
O_TC0_OPEN == "{\"choices\":[{\"delta\":{\"tool_calls\":[{\"index\":0,\"id\":\"c0\",\"function\":{\"name\":\"bash\",\"arguments\":\"{\\\"command\\\":\"}}]}}]}"
O_TC0_CLOSE == "{\"choices\":[{\"delta\":{\"tool_calls\":[{\"index\":0,\"function\":{\"arguments\":\"\\\"ls\\\"}\"}}]}}]}"
O_TC1 == "{\"choices\":[{\"delta\":{\"tool_calls\":[{\"index\":1,\"id\":\"c1\",\"function\":{\"name\":\"read\",\"arguments\":\"{}\"}}]}}]}"
O_FINISH_TOOLS == "{\"choices\":[{\"delta\":{},\"finish_reason\":\"tool_calls\"}]}"
O_FINISH_STOP == "{\"choices\":[{\"delta\":{},\"finish_reason\":\"stop\"}],\"usage\":{\"prompt_tokens\":10,\"completion_tokens\":5}}"
O_USAGE == "{\"choices\":[],\"usage\":{\"prompt_tokens\":10,\"completion_tokens\":5}}"
O_DONE == "[DONE]"
O_GARBAGE == "{\"choices\":"

O_Choices(delta, rest) == Member("choices", JArr(<<JObj({Member("delta", delta)} \cup rest)>>))
O_ToolCalls(tcs) == JObj({Member("tool_calls", JArr(tcs))})
O_Function(fields) == Member("function", JObj(fields))
O_UsageObj ==
    Member("usage", JObj({Member("prompt_tokens", JNum(10)),
                          Member("completion_tokens", JNum(5))}))

\* serde_json::from_str::<Value> on the chunk texts above
OaiDocs ==
    { <<<<O_TEXT>>, JObj({O_Choices(JObj({Member("content", JStr(<<"Hello">>))}), {})})>>,
      <<<<O_TC0_OPEN>>,
        JObj({O_Choices(
                 O_ToolCalls(<<JObj({Member("index", JNum(0)),
                                     Member("id", JStr(<<"c0">>)),
                                     O_Function({Member("name", JStr(<<"bash">>)),
                                                 Member("arguments", JStr(<<ARG_OPEN>>))})})>>),
                 {})})>>,
      <<<<O_TC0_CLOSE>>,
        JObj({O_Choices(
                 O_ToolCalls(<<JObj({Member("index", JNum(0)),
                                     O_Function({Member("arguments", JStr(<<ARG_CLOSE>>))})})>>),
                 {})})>>,
      <<<<O_TC1>>,
        JObj({O_Choices(
                 O_ToolCalls(<<JObj({Member("index", JNum(1)),
                                     Member("id", JStr(<<"c1">>)),
                                     O_Function({Member("name", JStr(<<"read">>)),
                                                 Member("arguments", JStr(<<ARG_EMPTY>>))})})>>),
                 {})})>>,
      <<<<O_FINISH_TOOLS>>,
        JObj({O_Choices(JObj({}), {Member("finish_reason", JStr(<<"tool_calls">>))})})>>,
      <<<<O_FINISH_STOP>>,
        JObj({O_Choices(JObj({}), {Member("finish_reason", JStr(<<"stop">>))}),
              O_UsageObj})>>,
      <<<<O_USAGE>>, JObj({Member("choices", JArr(<<>>)), O_UsageObj})>> }

\* serde_json::from_str(&sse_event.data) in OpenAiEventStream::process_sse_event
oai_from_str(text) ==
    IF \E d \in OaiDocs : d[1] = text
    THEN Some((CHOOSE d \in OaiDocs : d[1] = text)[2])
    ELSE None

\* the character U+0060, which a TLA+ string cannot hold
BACKTICK == "U+0060"

\* the texts that open an object and stop where the value of its member is due
OpensObject == {ARG_OPEN, O_GARBAGE}

\* the number of leading atoms of a text that are in a set
LeadingIn(text, S) ==
    LET run[n \in 0..Len(text)] ==
            IF n = 0 THEN 0
            ELSE IF run[n - 1] = n - 1 /\ text[n] \in S THEN n ELSE run[n - 1]
    IN  run[Len(text)]

\* serde_json::Error::to_string: the error code and the position it is raised at (the
\* texts of the model are one line)
SerdeMessage(code, column) == code \o <<" at line 1 column ", ToString(column)>>

\* serde_json::Error::to_string for a text that serde_json::from_str::<Value> rejects.
\* The parser skips blanks, reads one value and demands the end of the text; a text of
\* the model is blanks, then fragments that open an object, then the rest.  The column
\* is the number of characters read, the offending one included.
serde_error(text) ==
    LET blanks == LeadingIn(text, {" "})
        body == SubSeq(text, blanks + 1, Len(text))
        depth == LeadingIn(body, OpensObject)
        rest == SubSeq(body, depth + 1, Len(body))
        chars[n \in 0..Len(text)] == IF n = 0 THEN 0 ELSE chars[n - 1] + Len(text[n])
        read == chars[blanks + depth]
    IN  IF rest = <<>> THEN SerdeMessage(<<"EOF while parsing a value">>, read)
        ELSE IF rest[1] = O_DONE THEN SerdeMessage(<<"expected value">>, read + 2)
        ELSE IF depth = 0 /\ rest[1] = ARG_CLOSE
        THEN \* the string "ls" is the value, the brace after it is left over
             SerdeMessage(<<"trailing characters">>, read + Len(ARG_CLOSE))
        ELSE IF (depth = 0 /\ rest[1] = ARG_EMPTY) \/ (depth = 1 /\ rest[1] = ARG_CLOSE)
        THEN \* the value is complete with rest[1]; more text follows it
             SerdeMessage(<<"trailing characters">>, read + Len(rest[1]) + 1)
        ELSE IF rest[1] \in {ARG_CLOSE, ARG_EMPTY}
        THEN \* an enclosing object is open after the member value rest[1]
             IF Len(rest) = 1
             THEN SerdeMessage(<<"EOF while parsing an object">>, read + Len(rest[1]))
             ELSE SerdeMessage(<<"expected ", BACKTICK, ",", BACKTICK, " or ", BACKTICK, "}",
                                 BACKTICK>>,
                               read + Len(rest[1]) + 1)
        ELSE SerdeMessage(<<"expected value">>, read + 1)

\* str::trim on a text of atoms: blank atoms at either end are dropped
RECURSIVE TrimText(_)
TrimText(text) ==
    IF text # <<>> /\ text[1] = " " THEN TrimText(Tail(text))
    ELSE IF text # <<>> /\ text[Len(text)] = " "
    THEN TrimText(SubSeq(text, 1, Len(text) - 1))
    ELSE text

\* parse_finish_reason
parse_finish_reason(reason) ==
    CASE reason = <<"stop">> -> EndTurn
      [] reason = <<"tool_calls">> -> ToolUseStop
      [] reason = <<"length">> -> MaxTokens
      [] OTHER -> EndTurn

\* HashMap<u32, (String, String, String)>
EmptyMap == [k \in {} |-> <<>>]
MapPut(m, k, v) == [x \in (DOMAIN m) \cup {k} |-> IF x = k THEN v ELSE m[x]]
MapRemove(m, k) == [x \in (DOMAIN m) \ {k} |-> m[x]]

\* OpenAiEventStream::new
OaiNew == [tool_calls |-> EmptyMap, pending |-> <<>>, done |-> FALSE]

\* process_sse_event: one element of delta.tool_calls merged into its entry
OaiMergeToolCall(calls, tc) ==
    LET index == unwrap_or(as_u64(Idx(tc, "index")), 0)
        entry == IF index \in DOMAIN calls THEN calls[index] ELSE <<<<>>, <<>>, <<>>>>
        id == as_str(Idx(tc, "id"))
        name == as_str(Idx(Idx(tc, "function"), "name"))
        args == as_str(Idx(Idx(tc, "function"), "arguments"))
    IN  MapPut(calls, index,
               << IF id # None THEN id[1] ELSE entry[1],
                  IF name # None THEN name[1] ELSE entry[2],
                  IF args # None THEN entry[3] \o args[1] ELSE entry[3] >>)

RECURSIVE OaiMergeToolCalls(_, _)
OaiMergeToolCalls(calls, tcs) ==
    IF tcs = <<>> THEN calls
    ELSE OaiMergeToolCalls(OaiMergeToolCall(calls, Head(tcs)), Tail(tcs))

\* a flush that gives a call whose arguments do not parse a null input
OaiToolInputOrNull(args_json) ==
    LET v == from_str(args_json) IN IF v # None THEN v[1] ELSE JNull

\* the input of a flushed tool call
OaiToolInput(args_json) ==
    LET v == from_str(args_json)
    IN  IF v # None THEN v[1]
        ELSE JObj({Member("_parse_error", JStr(serde_error(args_json))),
                   Member("_raw_args", JStr(args_json))})

Min(S) == CHOOSE x \in S : \A y \in S : x <= y
Max(S) == CHOOSE x \in S : \A y \in S : x >= y

RECURSIVE OaiFlushDescending(_)
\* a flush that walks the accumulated calls from the highest index down
OaiFlushDescending(calls) ==
    IF DOMAIN calls = {} THEN <<>>
    ELSE LET idx == Max(DOMAIN calls)
         IN  <<Ok(ToolUse(calls[idx][1], calls[idx][2], OaiToolInput(calls[idx][3])))>>
                 \o OaiFlushDescending(MapRemove(calls, idx))

RECURSIVE OaiFlush(_)
\* process_sse_event: the ToolUse events of the accumulated calls, by ascending index
OaiFlush(calls) ==
    IF DOMAIN calls = {} THEN <<>>
    ELSE LET idx == Min(DOMAIN calls)
         IN  <<Ok(ToolUse(calls[idx][1], calls[idx][2], OaiToolInput(calls[idx][3])))>>
                 \o OaiFlush(MapRemove(calls, idx))

\* OpenAiEventStream::process_sse_event, after the [DONE] test
OaiProcessChunk(st, chunk) ==
    LET choice == At(Idx(chunk, "choices"), 0)
        delta == as_object(Idx(choice, "delta"))
        text == IF delta = None THEN None ELSE as_str(Idx(delta[1], "content"))
        tcs == IF delta = None THEN None ELSE as_array(Idx(delta[1], "tool_calls"))
        u == as_object(Idx(chunk, "usage"))
        input == IF u = None THEN 0 ELSE unwrap_or(as_u64(Idx(u[1], "prompt_tokens")), 0)
        output ==
            IF u = None THEN 0 ELSE unwrap_or(as_u64(Idx(u[1], "completion_tokens")), 0)
        reason == as_str(Idx(choice, "finish_reason"))
        calls == IF tcs = None THEN st.tool_calls
                 ELSE OaiMergeToolCalls(st.tool_calls, tcs[1])
        stop == parse_finish_reason(reason[1])
        flushes == reason # None /\ stop = ToolUseStop
    IN  [st EXCEPT
            !.tool_calls = IF flushes THEN EmptyMap ELSE calls,
            !.pending =
                @ \o (IF text # None THEN <<Ok(TextDelta(text[1]))>> ELSE <<>>)
                  \o (IF u # None /\ (input > 0 \/ output > 0)
                      THEN <<Ok(UsageUpdate(input, output, 0, 0))>> ELSE <<>>)
                  \o (IF flushes THEN OaiFlush(calls) ELSE <<>>)
                  \o (IF reason # None THEN <<Ok(MessageEnd(stop))>> ELSE <<>>)]

\* process_sse_event without the [DONE] test
OaiProcessSseEventIgnoringDone(st, sse_event) ==
    LET chunk == oai_from_str(sse_event.data)
    IN  IF chunk = None THEN st ELSE OaiProcessChunk(st, chunk[1])

\* OpenAiEventStream::process_sse_event
OaiProcessSseEvent(st, sse_event) ==
    IF TrimText(sse_event.data) = <<O_DONE>> THEN [st EXCEPT !.done = TRUE]
    ELSE LET chunk == oai_from_str(sse_event.data)
         IN  IF chunk = None THEN st ELSE OaiProcessChunk(st, chunk[1])

\* The SSE events the translator is run on
MaxOaiEvents == 4

OaiEv(data) == SseEvent(None, <<data>>)
OaiSseEvents ==
    { OaiEv(O_TEXT), OaiEv(O_TC0_OPEN), OaiEv(O_TC0_CLOSE), OaiEv(O_TC1),
      OaiEv(O_FINISH_TOOLS), OaiEv(O_FINISH_STOP), OaiEv(O_USAGE), OaiEv(O_DONE),
      OaiEv(O_GARBAGE) }

OaiIdle ==
    /\ oai = OaiNew
    /\ oai_in = <<>>
    /\ oai_out = <<>>
    /\ oai_eof = FALSE

\* poll_next: a finished stream with nothing buffered returns None
OaiPollDone ==
    /\ oai.done
    /\ oai.pending = <<>>
    /\ ~oai_eof
    /\ oai_eof' = TRUE
    /\ UNCHANGED <<notOai, oai, oai_in, oai_out>>

\* poll_next: a buffered item is returned first
OaiPollPending ==
    /\ oai.pending # <<>>
    /\ oai_out' = Append(oai_out, Head(oai.pending))
    /\ oai' = [oai EXCEPT !.pending = Tail(@)]
    /\ UNCHANGED <<notOai, oai_in, oai_eof>>

\* poll_next: the inner stream delivers an SSE event
OaiPollEvent ==
    /\ ~oai.done
    /\ oai.pending = <<>>
    /\ Len(oai_in) < MaxOaiEvents
    /\ \E ev \in OaiSseEvents :
         LET st == OaiProcessSseEvent(oai, ev)
         IN  /\ oai_in' = Append(oai_in, Ok(ev))
             /\ IF st.pending # <<>>
                THEN /\ oai_out' = Append(oai_out, Head(st.pending))
                     /\ oai' = [st EXCEPT !.pending = Tail(@)]
                     /\ oai_eof' = oai_eof
                ELSE /\ oai_out' = oai_out
                     /\ oai' = st
                     /\ oai_eof' = st.done
    /\ UNCHANGED notOai

\* poll_next: the inner stream yields an error (a transport read failure)
OaiPollErr ==
    /\ ~oai.done
    /\ oai.pending = <<>>
    /\ oai_in' = Append(oai_in, Err(<<"SSE stream error: ", "connection reset">>))
    /\ oai_out' = Append(oai_out, Err(<<"SSE stream error: ", "connection reset">>))
    /\ oai' = [oai EXCEPT !.done = TRUE]
    /\ UNCHANGED <<notOai, oai_eof>>

\* poll_next: the inner stream has ended
OaiPollEnd ==
    /\ ~oai.done
    /\ oai.pending = <<>>
    /\ oai' = [oai EXCEPT !.done = TRUE]
    /\ oai_eof' = TRUE
    /\ UNCHANGED <<notOai, oai_in, oai_out>>

OaiNext == OaiPollDone \/ OaiPollPending \/ OaiPollEvent \/ OaiPollErr \/ OaiPollEnd

(***************************************************************************)
(* Ollama NDJSON translator (llm/ollama.rs)                                *)
(*                                                                         *)
(* The body is ASCII text, a sequence of atoms: "\n", " ", and the halves  *)
(* of the JSON lines below (String::from_utf8_lossy leaves ASCII as it     *)
(* is).  A chunk boundary may fall between any two atoms.                  *)
(***************************************************************************)
L_TEXT_1 == "{\"message\":{\"content\":\"Hi\"},"
L_TEXT_2 == "\"done\":false}"
L_TOOL_A_1 == "{\"message\":{\"content\":\"\",\"tool_calls\":[{\"function\":{\"name\":\"bash\",\"arguments\":{\"command\":\"ls\"}}}]},"
L_TOOL_A_2 == "\"done\":false} "
L_TOOL_B_1 == "{\"message\":{\"tool_calls\":[{\"function\":{\"name\":\"read\",\"arguments\":{}}}]}"
L_TOOL_B_2 == "}"
L_DONE_1 == "{\"message\":{\"content\":\"\"},\"done\":true,"
L_DONE_2 == "\"prompt_eval_count\":10,\"eval_count\":5}"
L_BAD_1 == "{\"message\":"

OllamaToolCall(name, arguments) == [function |-> [name |-> name, arguments |-> arguments]]
OllamaChatChunk(content, calls, done, prompt_eval_count, eval_count) ==
    [message |-> [content |-> content, tool_calls |-> calls], done |-> done,
     prompt_eval_count |-> prompt_eval_count, eval_count |-> eval_count]

CallBash == OllamaToolCall(<<"bash">>, ArgsLs)
CallRead == OllamaToolCall(<<"read">>, JObj({}))

\* the lines of a response body
OllLines ==
    { <<L_TEXT_1, L_TEXT_2>>, <<L_TOOL_A_1, L_TOOL_A_2>>, <<L_TOOL_B_1, L_TOOL_B_2>>,
      <<L_DONE_1, L_DONE_2>>, <<L_BAD_1>>, <<" ">> }

\* serde_json::from_str::<OllamaChatChunk> on a trimmed line
OllDocs ==
    { <<<<L_TEXT_1, L_TEXT_2>>, OllamaChatChunk(<<"Hi">>, None, FALSE, 0, 0)>>,
      <<<<L_TOOL_A_1, "\"done\":false}">>,
        OllamaChatChunk(<<>>, Some(<<CallBash>>), FALSE, 0, 0)>>,
      <<<<L_TOOL_B_1, L_TOOL_B_2>>, OllamaChatChunk(<<>>, Some(<<CallRead>>), FALSE, 0, 0)>>,
      <<<<L_DONE_1, L_DONE_2>>, OllamaChatChunk(<<>>, None, TRUE, 10, 5)>> }

oll_from_str(line) ==
    IF \E d \in OllDocs : d[1] = line
    THEN Some((CHOOSE d \in OllDocs : d[1] = line)[2])
    ELSE None

\* one atom with its trailing blank removed, the atom itself when it has none
TrimAtomEnd(a) == IF a = L_TOOL_A_2 THEN "\"done\":false}" ELSE a

\* str::trim: blank atoms at either end are dropped, and the blank that ends an atom
TrimLine(text) ==
    LET t == TrimText(text)
    IN  IF t = <<>> THEN t ELSE SubSeq(t, 1, Len(t) - 1) \o <<TrimAtomEnd(t[Len(t)])>>

\* uuid::Uuid::new_v4 as text: the n-th UUID generated
Uuid(n) == "uuid-" \o ToString(n)

\* OllamaNdjsonStream::new
OllNew ==
    [ndjson_buffer |-> <<>>, accumulated_tool_calls |-> <<>>, pending |-> <<>>,
     finished |-> FALSE]

\* final events that walk the accumulated calls from the last one back
OllEmitFinalEventsReversed(st, input_tokens, output_tokens, n) ==
    LET calls == st.accumulated_tool_calls
        k == Len(calls)
        uses == [i \in 1..k |->
                    Ok(ToolUse(<<"ollama_call_", Uuid(n + i)>>, calls[k + 1 - i].function.name,
                               calls[k + 1 - i].function.arguments))]
        usage_part == IF input_tokens > 0 \/ output_tokens > 0
                 THEN <<Ok(UsageUpdate(input_tokens, output_tokens, 0, 0))>>
                 ELSE <<>>
        stop == IF calls # <<>> THEN ToolUseStop ELSE EndTurn
    IN  [st EXCEPT !.accumulated_tool_calls = <<>>,
                   !.pending = @ \o uses \o usage_part \o <<Ok(MessageEnd(stop))>>]

\* OllamaNdjsonStream::emit_final_events; n UUIDs have been generated before
OllEmitFinalEvents(st, input_tokens, output_tokens, n) ==
    LET calls == st.accumulated_tool_calls
        has_tool_calls == calls # <<>>
        uses == [i \in 1..Len(calls) |->
                    Ok(ToolUse(<<"ollama_call_", Uuid(n + i)>>, calls[i].function.name,
                               calls[i].function.arguments))]
        usage_part == IF input_tokens > 0 \/ output_tokens > 0
                 THEN <<Ok(UsageUpdate(input_tokens, output_tokens, 0, 0))>>
                 ELSE <<>>
        stop == IF has_tool_calls THEN ToolUseStop ELSE EndTurn
    IN  [st EXCEPT !.accumulated_tool_calls = <<>>,
                   !.pending = @ \o uses \o usage_part \o <<Ok(MessageEnd(stop))>>]

\* OllamaNdjsonStream::process_line; n UUIDs have been generated before
OllProcessLine(st, line, n) ==
    LET parsed == oll_from_str(line)
    IN  IF parsed = None THEN st
        ELSE LET chunk == parsed[1]
                 s1 == IF chunk.message.content # <<>>
                       THEN [st EXCEPT !.pending =
                               Append(@, Ok(TextDelta(chunk.message.content)))]
                       ELSE st
                 s2 == IF chunk.message.tool_calls # None
                       THEN [s1 EXCEPT !.accumulated_tool_calls =
                               @ \o chunk.message.tool_calls[1]]
                       ELSE s1
             IN  IF chunk.done
                 THEN [OllEmitFinalEvents(s2, chunk.prompt_eval_count, chunk.eval_count, n)
                         EXCEPT !.finished = TRUE]
                 ELSE s2

RECURSIVE OllProcessBuffer(_, _)
\* OllamaNdjsonStream::process_buffer; n UUIDs have been generated before
OllProcessBuffer(st, n) ==
    LET p == Find(st.ndjson_buffer, "\n")
        line == TrimLine(SubSeq(st.ndjson_buffer, 1, p - 1))
        rest == [st EXCEPT !.ndjson_buffer = SubSeq(st.ndjson_buffer, p + 1, Len(st.ndjson_buffer))]
    IN  IF p = 0 THEN st
        ELSE IF line = <<>> THEN OllProcessBuffer(rest, n)
        ELSE LET after == OllProcessLine(rest, line, n)
             IN  IF after.finished THEN after ELSE OllProcessBuffer(after, n)

\* the number of ToolUse ids a step has generated
NewUuids(before, after) ==
    Cardinality({ i \in 1..Len(after.pending) : IsOk(after.pending[i], "ToolUse") })
      - Cardinality({ i \in 1..Len(before.pending) : IsOk(before.pending[i], "ToolUse") })

\* The response bodies the translator is run on
MaxOllLines == 3

RECURSIVE OllBody(_)
OllBody(ls) == IF ls = <<>> THEN <<>> ELSE Head(ls) \o <<"\n">> \o OllBody(Tail(ls))

\* every body of at most MaxOllLines lines, the last one terminated or not
OllStreams ==
    LET seqs == UNION { [1..n -> OllLines] : n \in 0..MaxOllLines }
    IN  { OllBody(ls) : ls \in seqs }
          \cup { SubSeq(OllBody(ls), 1, Len(OllBody(ls)) - 1) : ls \in seqs \ {<<>>} }

OllStart(src) ==
    /\ oll = OllNew
    /\ oll_src = src
    /\ oll_inner = src
    /\ oll_out = <<>>
    /\ oll_eof = FALSE
    /\ uuids = 0

OllIdle == OllStart(<<>>)

\* poll_next: a buffered item is returned first
OllPollPending ==
    /\ oll.pending # <<>>
    /\ oll_out' = Append(oll_out, Head(oll.pending))
    /\ oll' = [oll EXCEPT !.pending = Tail(@)]
    /\ UNCHANGED <<notOll, oll_inner, oll_src, oll_eof, uuids>>

\* poll_next: a finished stream with nothing buffered returns None
OllPollFinished ==
    /\ oll.pending = <<>>
    /\ oll.finished
    /\ ~oll_eof
    /\ oll_eof' = TRUE
    /\ UNCHANGED <<notOll, oll, oll_inner, oll_src, oll_out, uuids>>

\* poll_next: the byte stream delivers the next k atoms
OllPollChunk ==
    /\ oll.pending = <<>>
    /\ ~oll.finished
    /\ \E k \in 1..Len(oll_inner) :
         LET st == OllProcessBuffer(
                       [oll EXCEPT !.ndjson_buffer = @ \o SubSeq(oll_inner, 1, k)], uuids)
         IN  /\ oll_inner' = SubSeq(oll_inner, k + 1, Len(oll_inner))
             /\ uuids' = uuids + NewUuids(oll, st)
             /\ IF st.pending # <<>>
                THEN /\ oll_out' = Append(oll_out, Head(st.pending))
                     /\ oll' = [st EXCEPT !.pending = Tail(@)]
                     /\ oll_eof' = oll_eof
                ELSE /\ oll_out' = oll_out
                     /\ oll' = st
                     /\ oll_eof' = st.finished
    /\ UNCHANGED <<notOll, oll_src>>

\* poll_next: the byte stream yields an error, at any point before its end; the stream
\* is finished and the byte stream, left as it is, is not polled again
OllPollErr ==
    /\ oll.pending = <<>>
    /\ ~oll.finished
    /\ \E e \in TransportErrors :
         oll_out' = Append(oll_out, Err(<<"Ollama stream read error: ", e>>))
    /\ oll' = [oll EXCEPT !.finished = TRUE]
    /\ UNCHANGED <<notOll, oll_inner, oll_src, oll_eof, uuids>>

\* an end of the byte stream that is passed on as an end of the stream
OllPollEndSilently ==
    /\ oll.pending = <<>>
    /\ ~oll.finished
    /\ oll_inner = <<>>
    /\ oll' = [oll EXCEPT !.finished = TRUE]
    /\ oll_eof' = TRUE
    /\ UNCHANGED <<notOll, oll_inner, oll_src, oll_out, uuids>>

\* poll_next: the byte stream has ended
OllPollEnd ==
    /\ oll.pending = <<>>
    /\ ~oll.finished
    /\ oll_inner = <<>>
    /\ LET remaining == TrimLine(oll.ndjson_buffer)
           s1 == IF remaining # <<>>
                 THEN OllProcessLine([oll EXCEPT !.ndjson_buffer = <<>>], remaining, uuids)
                 ELSE oll
           s2 == IF ~s1.finished
                 THEN [s1 EXCEPT
                         !.pending =
                             Append(@, Err(<<"Ollama stream ended without final response">>)),
                         !.finished = TRUE]
                 ELSE s1
       IN  /\ uuids' = uuids + NewUuids(oll, s2)
           /\ oll_out' = Append(oll_out, Head(s2.pending))
           /\ oll' = [s2 EXCEPT !.pending = Tail(@)]
    /\ UNCHANGED <<notOll, oll_inner, oll_src, oll_eof>>

OllNext == OllPollPending \/ OllPollFinished \/ OllPollChunk \/ OllPollErr \/ OllPollEnd

(***************************************************************************)
(* Messages and sessions (agent/types.rs, agent/session.rs)                *)
(***************************************************************************)
User == "User"
Assistant == "Assistant"

Text(text) == [type |-> "text", text |-> text]
ToolUseBlock(id, name, input) ==
    [type |-> "tool_use", id |-> id, name |-> name, input |-> input]
ToolResultBlock(tool_use_id, content, is_error) ==
    [type |-> "tool_result", tool_use_id |-> tool_use_id, content |-> content,
     is_error |-> is_error]
\* ContentBlock::Image of a base64 source, as load_image_from_path builds it
ImageSource(source_type, media_type, data) ==
    [source_type |-> source_type, media_type |-> media_type, data |-> data]
ImageBlock(source) == [type |-> "image", source |-> source]

Message(role, content) == [role |-> role, content |-> content]
\* Message::user, Message::assistant
UserMessage(text) == Message(User, <<Text(text)>>)
AssistantMessage(content) == Message(Assistant, content)

(***************************************************************************)
(* Context management (agent/context.rs)                                   *)
(*                                                                         *)
(* A text is a sequence of atoms; its length in bytes is the sum of the    *)
(* lengths of its atoms.  The atom BULK stands for a pasted document of    *)
(* BulkLen ASCII characters.                                               *)
(***************************************************************************)
CHARS_PER_TOKEN == 4
KEEP_RECENT_MESSAGES == 6
MESSAGE_OVERHEAD == 4

\* llm/models.rs: the built-in model catalogue (id and context_window of each entry)
DEFAULT_CONTEXT_WINDOW == 128000
ModelInfo(id, context_window) == [id |-> id, context_window |-> context_window]
MODELS ==
    << ModelInfo("claude-sonnet-4-20250514", 200000),
       ModelInfo("claude-opus-4-20250514", 200000),
       ModelInfo("claude-haiku-3-20250307", 200000),
       ModelInfo("gpt-4o", 128000),
       ModelInfo("gpt-4o-mini", 128000),
       ModelInfo("gpt-4-turbo", 128000) >>

\* get_model_info: MODELS.iter().find(|m| m.id == model)
get_model_info(name) ==
    LET hits == { i \in 1..Len(MODELS) : MODELS[i].id = name }
    IN  IF hits = {} THEN None
        ELSE Some(MODELS[CHOOSE i \in hits : \A j \in hits : i <= j])

\* context_limit: the context window of a listed model, 128 000 for any other name
context_limit(name) ==
    LET info == get_model_info(name)
    IN  IF info = None THEN DEFAULT_CONTEXT_WINDOW ELSE info[1].context_window

\* Config::default().model (config/schema.rs default_model), a model of the OpenAI
\* part of the catalogue, and a model the catalogue does not list
DefaultModel == "claude-sonnet-4-20250514"
Gpt4o == "gpt-4o"
UnlistedModel == "claude-3-5-sonnet-20241022"

BulkLen == 420000
BULK == "<document>"

\* the base64 text of an image file, ImageLen characters long
ImageLen == 1500
IMAGE_DATA == "<base64 of shot.png>"

\* a text of PadLen characters: with it a one-message session (4 tokens of overhead), the
\* system prompt (60 tokens) and the tool definitions (18 tokens) are estimated at
\* exactly 80% of DEFAULT_CONTEXT_WINDOW; WIDE_PAD is the same for the context window of
\* the default model
PadLenFor(limit) == CHARS_PER_TOKEN * ((limit * 80) \div 100 - (MESSAGE_OVERHEAD + 60 + 18))
PadLen == PadLenFor(DEFAULT_CONTEXT_WINDOW)
PAD == "<padding>"
WidePadLen == PadLenFor(context_limit(DefaultModel))
WIDE_PAD == "<wide padding>"

AtomLen(a) ==
    IF a = BULK THEN BulkLen
    ELSE IF a = IMAGE_DATA THEN ImageLen
    ELSE IF a = PAD THEN PadLen
    ELSE IF a = WIDE_PAD THEN WidePadLen
    ELSE Len(a)

\* str::len: the sum of the lengths of the atoms
StrLen(text) ==
    LET sum[n \in 0..Len(text)] == IF n = 0 THEN 0 ELSE sum[n - 1] + AtomLen(text[n])
    IN  sum[Len(text)]

RECURSIVE Digits(_)
Digits(n) == IF n < 10 THEN 1 ELSE 1 + Digits(n \div 10)

RECURSIVE JsonLen(_), MembersLen(_), ElementsLen(_)
\* the length of serde_json::Value::to_string (compact form; the texts of the model
\* need no escaping)
JsonLen(v) ==
    CASE v.t = "null" -> 4
      [] v.t = "str" -> StrLen(v.s) + 2
      [] v.t = "num" -> Digits(v.n)
      [] v.t = "arr" -> 2 + (IF Len(v.a) = 0 THEN 0 ELSE Len(v.a) - 1) + ElementsLen(v.a)
      [] v.t = "obj" -> 2 + (IF v.f = {} THEN 0 ELSE Cardinality(v.f) - 1) + MembersLen(v.f)

\* "key":value for each member
MembersLen(f) ==
    IF f = {} THEN 0
    ELSE LET m == CHOOSE x \in f : TRUE
         IN  Len(m[1]) + 3 + JsonLen(m[2]) + MembersLen(f \ {m})

ElementsLen(a) == IF a = <<>> THEN 0 ELSE JsonLen(Head(a)) + ElementsLen(Tail(a))

\* estimate_tokens: text.len().div_ceil(4)
estimate_len(n) == (n + CHARS_PER_TOKEN - 1) \div CHARS_PER_TOKEN
estimate_tokens(text) == estimate_len(StrLen(text))

\* estimate_message_tokens, one block
estimate_block_tokens(block) ==
    CASE block.type = "text" -> estimate_tokens(block.text)
      [] block.type = "tool_use" ->
           estimate_tokens(block.id) + estimate_tokens(block.name)
             + estimate_len(JsonLen(block.input))
      [] block.type = "tool_result" ->
           estimate_tokens(block.tool_use_id) + estimate_tokens(block.content)
      [] block.type = "image" -> StrLen(block.source.data) \div 750 + 100

\* estimate_message_tokens: msg.content.iter().map(..).sum()
estimate_blocks_tokens(content) ==
    LET sum[n \in 0..Len(content)] ==
            IF n = 0 THEN 0 ELSE sum[n - 1] + estimate_block_tokens(content[n])
    IN  sum[Len(content)]

\* estimate_message_tokens
estimate_message_tokens(msg) == MESSAGE_OVERHEAD + estimate_blocks_tokens(msg.content)

\* estimate_messages_tokens: msgs.iter().map(estimate_message_tokens).sum()
estimate_messages_tokens(msgs) ==
    LET sum[n \in 0..Len(msgs)] ==
            IF n = 0 THEN 0 ELSE sum[n - 1] + estimate_message_tokens(msgs[n])
    IN  sum[Len(msgs)]

\* context_limit_for_model
context_limit_for_model(name) == context_limit(name)

(***************************************************************************)
(* What a provider answers to one stream_chat call: an error, or a stream  *)
(* of items that then ends or goes silent.                                 *)
(***************************************************************************)
Fail(err) == [kind |-> "fail", err |-> err]
Stream(items, ending) == [kind |-> "stream", items |-> items, ending |-> ending]

RECURSIVE SummaryOf(_)
\* summarize_via_llm: the text collected up to the MessageEnd, the error or the end
SummaryOf(items) ==
    IF items = <<>> THEN <<>>
    ELSE IF ~Head(items).ok THEN <<>>
    ELSE IF Head(items).val.type = "MessageEnd" THEN <<>>
    ELSE (IF Head(items).val.type = "TextDelta" THEN Head(items).val.text ELSE <<>>)
           \o SummaryOf(Tail(items))

\* the items summarize_via_llm reads: up to the first MessageEnd or error
RECURSIVE SummaryRead(_)
SummaryRead(items) ==
    IF items = <<>> THEN <<>>
    ELSE IF ~Head(items).ok \/ Head(items).val.type = "MessageEnd" THEN <<Head(items)>>
    ELSE <<Head(items)>> \o SummaryRead(Tail(items))

\* summarize_via_llm never returns: the stream goes silent before MessageEnd or error
\* (stream.next() is awaited without a timeout)
SummaryHangs(answer) ==
    /\ answer.kind = "stream"
    /\ answer.ending = "stall"
    /\ LET read == SummaryRead(answer.items)
       IN  read = <<>> \/ (read[Len(read)].ok /\ read[Len(read)].val.type # "MessageEnd")

\* summarize_via_llm after its loop: the collected text, an error when it is empty
summary_result(text) ==
    IF StrLen(text) = 0 THEN Err(<<"LLM returned empty summary">>) ELSE Ok(text)

\* summarize_via_llm, given the provider's answer to its request
summarize_via_llm(answer) ==
    IF answer.kind = "fail" THEN Err(answer.err)
    ELSE LET read == SummaryRead(answer.items)
         IN  IF read # <<>> /\ ~read[Len(read)].ok THEN Err(read[Len(read)].val)
             ELSE summary_result(SummaryOf(answer.items))

SUMMARY_HEADER ==
    "[Conversation summary -- earlier messages were compacted to save context]\n\n"

\* the length test of compact_messages taken one message too low
CompactCallsProviderFromSeven(messages) == Len(messages) > KEEP_RECENT_MESSAGES

\* compact_messages calls the provider
CompactCallsProvider(messages) == Len(messages) > KEEP_RECENT_MESSAGES + 1

\* the match of compact_messages with `?` in place of the fallback: the summarizer's
\* error is returned
compact_messages_match_propagating(messages, summarized) ==
    IF summarized.ok
    THEN Ok(<<messages[1], UserMessage(<<SUMMARY_HEADER>> \o summarized.val)>>
              \o SubSeq(messages, Len(messages) - KEEP_RECENT_MESSAGES + 1, Len(messages)))
    ELSE summarized

\* the match of compact_messages with the split one message too late: five recent
\* messages are kept
compact_messages_match_split_late(messages, summarized) ==
    LET recent == SubSeq(messages, Len(messages) - KEEP_RECENT_MESSAGES + 2, Len(messages))
    IN  IF summarized.ok
        THEN Ok(<<messages[1], UserMessage(<<SUMMARY_HEADER>> \o summarized.val)>> \o recent)
        ELSE Ok(<<messages[1]>> \o recent)

\* compact_messages from `match summarize_via_llm(..).await` on, given what
\* summarize_via_llm has returned
compact_messages_match(messages, summarized) ==
    LET first_msg == messages[1]
        split_point == Len(messages) - KEEP_RECENT_MESSAGES
        recent == SubSeq(messages, split_point + 1, Len(messages))
    IN  IF summarized.ok
        THEN Ok(<<first_msg, UserMessage(<<SUMMARY_HEADER>> \o summarized.val)>> \o recent)
        ELSE Ok(<<first_msg>> \o recent)

\* compact_messages, given the provider's answer to the summarization request
compact_messages(messages, answer) ==
    IF Len(messages) <= KEEP_RECENT_MESSAGES + 1 THEN Ok(messages)
    ELSE LET split_point == Len(messages) - KEEP_RECENT_MESSAGES
             middle == SubSeq(messages, 2, split_point)
         IN  IF middle = <<>> THEN Ok(messages)
             ELSE compact_messages_match(messages, summarize_via_llm(answer))

\* the threshold test with >= in place of >
NeedsCompactionFromThreshold(messages, name, system_prompt, tool_defs_tokens) ==
    estimate_tokens(system_prompt) + estimate_messages_tokens(messages) + tool_defs_tokens
      >= (context_limit_for_model(name) * 80) \div 100

\* maybe_compact: the estimate is over the threshold
NeedsCompaction(messages, name, system_prompt, tool_definitions_token_estimate) ==
    LET limit == context_limit_for_model(name)
        threshold == (limit * 80) \div 100
        total == estimate_tokens(system_prompt) + estimate_messages_tokens(messages)
                   + tool_definitions_token_estimate
    IN  total > threshold

\* maybe_compact, given the provider's answer to the summarization request (if made):
\* Ok(None), Ok(Some(compacted)), or the error of compact_messages (`.await?`)
maybe_compact(messages, name, system_prompt, tool_definitions_token_estimate, answer) ==
    IF ~NeedsCompaction(messages, name, system_prompt, tool_definitions_token_estimate)
    THEN Ok(None)
    ELSE LET compacted == compact_messages(messages, answer)
         IN  IF ~compacted.ok THEN compacted ELSE Ok(Some(compacted.val))

(***************************************************************************)
(* The agent turn loop (agent/mod.rs): its environment                     *)
(***************************************************************************)
MAX_AGENT_TURNS == 20
MAX_RETRIES == 2

\* The texts is_retryable_error looks for.  Error texts are sequences of atoms cut so
\* that each of these occurs in a text only as a whole atom: a text contains one of
\* them iff one of its atoms is equal to it.
RetryableMarks == {"rate limit", "429", "overloaded", "529", "503"}

\* is_retryable_error
is_retryable_error(err) == \E i \in 1..Len(err) : err[i] \in RetryableMarks

\* classify_http_error
classify_http_error(status, body) ==
    CASE status \in {401, 403} ->
           <<"Anthropic auth error (", ToString(status), "): ">> \o body
      [] status = 429 -> <<"Anthropic ", "rate limit", " exceeded (", "429", ")">>
      [] status = 529 -> <<"Anthropic API ", "overloaded", " (", "529", "). Retry later.">>
      [] status = 402 -> <<"Anthropic billing error (", "402", "): ">> \o body
      [] OTHER -> <<"Anthropic API error (", ToString(status), "): ">> \o body

RECURSIVE AnthDrive(_, _)
\* the items AnthropicEventStream yields, polled to its end, for the items of its
\* inner SSE stream
AnthDrive(st, in) ==
    IF st.done THEN <<>>
    ELSE IF st.pending # <<>> THEN <<Head(st.pending)>> \o AnthDrive(AnthPop(st), in)
    ELSE IF in = <<>> THEN <<>>
    ELSE IF ~Head(in).ok THEN <<Head(in)>>
    ELSE AnthDrive(AnthProcessSseEvent(st, Head(in).val), Tail(in))

HttpResponse(status, body, events) == [status |-> status, body |-> body, events |-> events]

\* AnthropicProvider::stream_chat, given the HTTP response to the request: always Ok;
\* a non-success status is the single item of the stream
AnthropicStreamChat(response) ==
    IF response.status < 200 \/ response.status > 299
    THEN Stream(<<Err(classify_http_error(response.status, response.body))>>, "end")
    ELSE Stream(AnthDrive(AnthNew, response.events), "end")

A_OVERLOADED_BODY == "{\"type\":\"error\",\"error\":{\"type\":\"overloaded_error\"}}"
A_AUTH_BODY == "{\"type\":\"error\",\"error\":{\"type\":\"authentication_error\"}}"
\* a permission error whose request id happens to hold the digits 529
A_PERMISSION_BODY ==
    << "{\"type\":\"error\",\"error\":{\"type\":\"permission_error\"},\"request_id\":\"req_011CS",
       "529", "K2UUq\"}" >>
A_BILLING_BODY == "{\"type\":\"error\",\"error\":{\"type\":\"billing_error\"}}"

\* the HTTP responses of the Anthropic API the loop is run against
AnthropicResponses ==
    { HttpResponse(200, <<>>, <<Ok(EvStartTool), Ok(EvJson1), Ok(EvJson2), Ok(EvBlockStop),
                               Ok(EvMsgDeltaTool), Ok(EvMsgStop)>>),
      HttpResponse(200, <<>>, <<Ok(AnthEv("message_start", A_MSG_START)),
                               Ok(AnthEv("content_block_delta", A_TEXT_DELTA)),
                               Ok(EvMsgDeltaEnd), Ok(EvMsgStop)>>),
      HttpResponse(200, <<>>, <<Ok(AnthEv("content_block_delta", A_TEXT_DELTA)),
                               Ok(EvError),
                               Ok(AnthEv("content_block_delta", A_TEXT_DELTA))>>),
      HttpResponse(200, <<>>, <<Ok(AnthEv("content_block_delta", A_TEXT_DELTA)),
                               Err(<<"SSE stream error: ", "connection reset">>),
                               Ok(AnthEv("content_block_delta", A_TEXT_DELTA))>>),
      HttpResponse(429, <<A_OVERLOADED_BODY>>, <<>>),
      HttpResponse(529, <<A_OVERLOADED_BODY>>, <<>>),
      HttpResponse(503, <<A_OVERLOADED_BODY>>, <<>>),
      HttpResponse(401, <<A_AUTH_BODY>>, <<>>),
      HttpResponse(403, A_PERMISSION_BODY, <<>>),
      HttpResponse(402, <<A_BILLING_BODY>>, <<>>) }

\* the response the Anthropic API gives once the first MaxScripted calls are past
AnthropicTail ==
    HttpResponse(200, <<>>, <<Ok(AnthEv("content_block_delta", A_TEXT_DELTA)),
                             Ok(EvMsgDeltaEnd), Ok(EvMsgStop)>>)

\* what AnthropicProvider::stream_chat returns for each of these responses
AnthropicAnswers == { AnthropicStreamChat(r) : r \in AnthropicResponses }
AnthropicTailAnswer == AnthropicStreamChat(AnthropicTail)

\* Any other implementor of LlmProvider: stream_chat may return an error, or a stream of
\* any items.  n is the number of the call; tool-call ids are unique across calls.
ToolId(n, i) == <<"toolu_" \o ToString(n) \o "_" \o ToString(i)>>

E_TRANSIENT == <<"upstream returned ", "503", " Service Unavailable">>
E_FATAL == <<"MockProvider: no more canned responses">>
E_MID_STREAM == <<"stream error: ", "overloaded">>

TextAnswer ==
    Stream(<<Ok(Thinking(<<"hm">>)), Ok(TextDelta(<<"Hello ">>)), Ok(TextDelta(<<"world!">>)),
             Ok(UsageUpdate(10, 5, 0, 0)), Ok(MessageEnd(EndTurn))>>, "end")
ToolAnswer(n) ==
    Stream(<<Ok(ToolUse(ToolId(n, 1), <<"bash">>, ArgsLs)), Ok(MessageEnd(ToolUseStop))>>,
           "end")
TwoToolsAnswer(n) ==
    Stream(<<Ok(TextDelta(<<"Let me check.">>)),
             Ok(ToolUse(ToolId(n, 1), <<"read">>, JObj({}))),
             Ok(ToolUse(ToolId(n, 2), <<"bash">>, ArgsLs)),
             Ok(UsageUpdate(20, 7, 0, 0)), Ok(MessageEnd(ToolUseStop))>>, "end")
\* the stream ends before any MessageEnd
CutAnswer(n) == Stream(<<Ok(ToolUse(ToolId(n, 1), <<"bash">>, ArgsLs))>>, "end")
NoCallAnswer == Stream(<<Ok(TextDelta(<<"Done.">>)), Ok(MessageEnd(ToolUseStop))>>, "end")
MaxTokensAnswer(n) ==
    Stream(<<Ok(ToolUse(ToolId(n, 1), <<"bash">>, ArgsLs)), Ok(MessageEnd(MaxTokens))>>, "end")
ErrorAnswer == Stream(<<Ok(TextDelta(<<"par">>)), Err(E_MID_STREAM)>>, "end")
\* the stream goes silent
StallAnswer == Stream(<<Ok(TextDelta(<<"par">>))>>, "stall")
StallAfterEndAnswer(n) ==
    Stream(<<Ok(ToolUse(ToolId(n, 1), <<"bash">>, ArgsLs)), Ok(MessageEnd(ToolUseStop))>>,
           "stall")
EmptyAnswer == Stream(<<>>, "end")

ScriptedAnswers(n) ==
    { Fail(E_TRANSIENT), Fail(E_FATAL), TextAnswer, ToolAnswer(n), TwoToolsAnswer(n),
      CutAnswer(n), NoCallAnswer, MaxTokensAnswer(n), ErrorAnswer, StallAnswer,
      StallAfterEndAnswer(n), EmptyAnswer }

\* the number of stream_chat calls of a run whose answers range over all of the above
MaxScripted == 4

\* ToolExecutor::definitions
ToolDefinition(name, description, input_schema) ==
    [name |-> name, description |-> description, input_schema |-> input_schema]
ObjectSchema == JObj({Member("type", JStr(<<"object">>))})
ToolDefinitions ==
    << ToolDefinition(<<"bash">>, <<"Run a shell command">>, ObjectSchema),
       ToolDefinition(<<"read">>, <<"Read a file">>, ObjectSchema) >>

\* ToolExecutor::execute: bash succeeds, read fails, any other tool is unknown
ToolExecute(name, args) ==
    CASE name = <<"bash">> -> Ok([content |-> <<"hello\n">>, is_error |-> FALSE])
      [] name = <<"read">> -> Err(<<"No such file or directory (os error 2)">>)
      [] OTHER -> Ok([content |-> <<"Unknown tool: ">> \o name, is_error |-> TRUE])

DEFAULT_SYSTEM_PROMPT ==
    "You are an AI assistant with access to tools for reading files, writing code, and running commands."

RECURSIVE ToolLines(_)
ToolLines(defs) ==
    IF defs = <<>> THEN <<>>
    ELSE <<"\n- **">> \o Head(defs).name \o <<"**: ">> \o Head(defs).description
           \o ToolLines(Tail(defs))

\* build_system_prompt, with the default base prompt, no CLAUDE.md and no memory file
build_system_prompt(defs) ==
    <<DEFAULT_SYSTEM_PROMPT>>
      \o (IF defs # <<>> THEN <<"\n\n## Available Tools\n">> \o ToolLines(defs) ELSE <<>>)
      \o <<"\n\n## Workspace\n", "\n- Working directory: ", "/work", "\n- Date: ",
           "2026-01-01">>

RECURSIVE ToolDefinitionsChars(_)
ToolDefinitionsChars(defs) ==
    IF defs = <<>> THEN 0
    ELSE StrLen(Head(defs).name) + StrLen(Head(defs).description)
           + JsonLen(Head(defs).input_schema) + ToolDefinitionsChars(Tail(defs))

\* estimate_tool_definitions_tokens
estimate_tool_definitions_tokens(defs) == (ToolDefinitionsChars(defs) + 3) \div 4

\* the sessions run_agent_loop is started on; each ends with the user's new message
OldTurn(i) ==
    << AssistantMessage(<<Text(<<"Answer ", ToString(i)>>)>>),
       UserMessage(<<"Question ", ToString(i)>>) >>

FreshSession == <<UserMessage(<<"run echo hello">>)>>
\* 7 messages, over the threshold because of the first one
ShortBulkSession ==
    <<UserMessage(<<"Review this: ", BULK>>)>> \o OldTurn(1) \o OldTurn(2) \o OldTurn(3)
\* 9 messages, over the threshold because of the third one
LongBulkSession ==
    << UserMessage(<<"What does the file say?">>),
       AssistantMessage(<<ToolUseBlock(<<"toolu_old">>, <<"read">>, JObj({}))>>),
       Message(User, <<ToolResultBlock(<<"toolu_old">>, <<BULK>>, FALSE)>>) >>
      \o OldTurn(1) \o OldTurn(2) \o OldTurn(3)
\* 9 messages, over the threshold because of the first one
LongBulkFirstSession == ShortBulkSession \o OldTurn(4)

Sessions == {FreshSession, ShortBulkSession, LongBulkSession, LongBulkFirstSession}

\* one message each: estimated at exactly the threshold, and one token above it
EdgeSession == <<UserMessage(<<PAD>>)>>
OverEdgeSession == <<UserMessage(<<PAD, "x">>)>>
EdgeSessions == {EdgeSession, OverEdgeSession}
\* the same for the context window of the default model
WideEdgeSession == <<UserMessage(<<WIDE_PAD>>)>>
OverWideEdgeSession == <<UserMessage(<<WIDE_PAD, "x">>)>>
WideEdgeSessions == {WideEdgeSession, OverWideEdgeSession}

\* a prompt that names an image file: a Text block of the prompt, then the Image block
\* of every file that load_image_from_path could load
ImagePrompt == <<"describe ", "shot.png">>
LoadedImage == ImageBlock(ImageSource("base64", "image/png", <<IMAGE_DATA>>))
ImageMessage(text, images) == Message(User, <<Text(text)>> \o images)
ImageSessions == {<<ImageMessage(ImagePrompt, images)>> : images \in {<<>>, <<LoadedImage>>}}

(***************************************************************************)
(* The agent turn loop (agent/mod.rs): run_agent_loop                      *)
(***************************************************************************)
UsageZero ==
    [input_tokens |-> 0, output_tokens |-> 0, cache_creation_input_tokens |-> 0,
     cache_read_input_tokens |-> 0]

\* a result that reports no tool call
AgentResultWithoutCalls(text, n, u) == [text |-> text, tool_calls |-> 0, usage |-> u]

AgentResult(text, n, u) == [text |-> text, tool_calls |-> n, usage |-> u]

PendingToolCall(id, name, input) == [id |-> id, name |-> name, input |-> input]

\* the answers the provider may give to the next stream_chat call
TailAnswer(n) ==
    IF provider = "anthropic" THEN AnthropicTailAnswer
    ELSE IF tail = "tool" THEN ToolAnswer(n)
    ELSE IF tail = "tools" THEN TwoToolsAnswer(n)
    ELSE TextAnswer

Answers ==
    IF chat_calls >= MaxScripted THEN {TailAnswer(chat_calls + 1)}
    ELSE IF provider = "anthropic"
    THEN AnthropicAnswers
    ELSE ScriptedAnswers(chat_calls + 1)

LoopStart(p, t, m, messages) ==
    /\ provider = p
    /\ tail = t
    /\ model = m
    /\ chat_calls = 0
    /\ pc = "turn"
    /\ turn = 0
    /\ session = messages
    /\ total_tool_calls = 0
    /\ usage = UsageZero
    /\ request = None
    /\ attempt = 0
    /\ stream = None
    /\ summary = <<>>
    /\ text_buf = <<>>
    /\ tool_calls = <<>>
    /\ stop_reason = EndTurn
    /\ exec_i = 0
    /\ result = None
    /\ consumed = <<>>
    /\ log = <<>>

\* run_agent_loop has not been called
LoopIdle ==
    /\ provider = "none"
    /\ tail = "none"
    /\ model = "none"
    /\ chat_calls = 0
    /\ pc = "idle"
    /\ turn = 0
    /\ session = <<>>
    /\ total_tool_calls = 0
    /\ usage = UsageZero
    /\ request = None
    /\ attempt = 0
    /\ stream = None
    /\ summary = <<>>
    /\ text_buf = <<>>
    /\ tool_calls = <<>>
    /\ stop_reason = EndTurn
    /\ exec_i = 0
    /\ result = None
    /\ consumed = <<>>
    /\ log = <<>>

\* the acquisition loop retries after this failure of this attempt
ShouldRetryAnyAttempt(k, err) == is_retryable_error(err)

\* the acquisition loop sleeps and retries after this failure of attempt k
ShouldRetry(k, err) == k < MAX_RETRIES /\ is_retryable_error(err)

\* the turn goes on to tool execution whatever the stop reason
ContinuesWithAnyStopReason(calls, reason) == calls # <<>>

\* the turn goes on to tool execution rather than returning the result
ContinuesWithTools(calls, reason) == ~(calls = <<>> \/ reason # ToolUseStop)

\* the turn loop goes on for ever
TurnsRemainAlways(t) == TRUE

\* for _turn in 0..MAX_AGENT_TURNS: turn t is run
TurnsRemain(t) == t < MAX_AGENT_TURNS

\* a request that leaves out the newest message of the session
build_chat_request_without_last(messages) ==
    [messages |-> SubSeq(messages, 1, Len(messages) - 1)]

\* build_chat_request: the request carries a copy of the session's messages (the other
\* fields come from the configuration and the tool definitions, which do not change)
build_chat_request(messages) == [messages |-> messages]

\* an assistant message that leaves the text out
AssistantContentWithoutText(text, calls) ==
    [i \in 1..Len(calls) |-> ToolUseBlock(calls[i].id, calls[i].name, calls[i].input)]

\* the content of the turn's assistant message: the text if not empty, then one ToolUse
\* block for each buffered call
AssistantContent(text, calls) ==
    (IF StrLen(text) # 0 THEN <<Text(text)>> ELSE <<>>)
      \o [i \in 1..Len(calls) |-> ToolUseBlock(calls[i].id, calls[i].name, calls[i].input)]

\* an executor error turned into a result that is not flagged
ToolErrorResultUnflagged(e) == [content |-> <<"Error: ">> \o e, is_error |-> FALSE]

\* the ToolResult that stands for an error of the executor
ToolErrorResult(e) == [content |-> <<"Error: ">> \o e, is_error |-> TRUE]

\* a result message that carries the block twice
ToolResultMessageTwice(id, tool_result) ==
    Message(User, <<ToolResultBlock(id, tool_result.content, tool_result.is_error),
                    ToolResultBlock(id, tool_result.content, tool_result.is_error)>>)

\* the user-role message pushed after a tool call
ToolResultMessage(id, tool_result) ==
    Message(User, <<ToolResultBlock(id, tool_result.content, tool_result.is_error)>>)

\* the value returned when MAX_AGENT_TURNS turns are used up
ExhaustedResult(n, u) == Ok(AgentResult(<<>>, n, u))

\* the system prompt and the estimate for the tool definitions, the same in every turn
SystemPrompt == build_system_prompt(ToolDefinitions)
ToolDefsTokens == estimate_tool_definitions_tokens(ToolDefinitions)

\* a push that puts the message in front of the list
push_message_front(messages, message) == <<message>> \o messages

\* Session::push_message
push_message(messages, message) == Append(messages, message)

\* an add_assistant_message that skips a message without content
add_assistant_message_unless_empty(messages, content) ==
    IF content = <<>> THEN messages ELSE Append(messages, AssistantMessage(content))

\* Session::add_assistant_message
add_assistant_message(messages, content) == Append(messages, AssistantMessage(content))

\* Session::replace_messages
replace_messages(messages, new) == new

\* a text buffer that takes the thinking text as well
TextAfterWithThinking(buf, event) ==
    IF event.type \in {"TextDelta", "Thinking"} THEN buf \o event.text ELSE buf

\* text_buf after an event: a TextDelta is appended, a Thinking event (printed to stderr)
\* and every other event leave it alone
TextAfter(buf, event) == IF event.type = "TextDelta" THEN buf \o event.text ELSE buf

\* the top of a turn from the return of maybe_compact on: its error is returned by `?`,
\* its list replaces the session's (replace_messages), and build_chat_request follows
TurnProceeds(r) ==
    IF ~r.ok
    THEN /\ result' = Some(r)
         /\ pc' = "done"
         /\ UNCHANGED <<session, request>>
    ELSE /\ session' = IF r.val # None THEN replace_messages(session, r.val[1]) ELSE session
         /\ request' = Some(build_chat_request(session'))
         /\ pc' = "acquire"
         /\ UNCHANGED result

\* the top of a turn: maybe_compact up to its first await.  Below the threshold, and on a
\* history too short to cut, it returns at once; otherwise summarize_via_llm calls
\* provider.stream_chat, whose error is the summarizer's, and whose stream is then read
\* item by item
LoopBeginTurn ==
    /\ pc = "turn"
    /\ IF NeedsCompaction(session, model, SystemPrompt, ToolDefsTokens)
          /\ CompactCallsProvider(session)
       THEN \E a \in Answers :
              /\ chat_calls' = chat_calls + 1
              /\ log' = Append(log, [op |-> "summarize", turn |-> turn])
              /\ IF a.kind = "fail"
                 THEN /\ TurnProceeds(maybe_compact(session, model, SystemPrompt,
                                                    ToolDefsTokens, a))
                      /\ UNCHANGED <<stream, summary>>
                 ELSE /\ stream' = Some([items |-> a.items, ending |-> a.ending])
                      /\ summary' = <<>>
                      /\ pc' = "summarize"
                      /\ UNCHANGED <<session, request, result>>
       ELSE /\ TurnProceeds(maybe_compact(session, model, SystemPrompt, ToolDefsTokens,
                                          EmptyAnswer))
            /\ UNCHANGED <<chat_calls, log, stream, summary>>
    /\ attempt' = 0
    /\ UNCHANGED <<notLoop, provider, tail, model, turn, total_tool_calls, usage, text_buf,
                   tool_calls, stop_reason, exec_i, consumed>>

\* summarize_via_llm has returned: compact_messages builds its list from the match on,
\* maybe_compact returns it (or the error, by `?`), and the turn goes on
SummaryReturns(summarized) ==
    LET compacted == compact_messages_match(session, summarized)
    IN  /\ TurnProceeds(IF ~compacted.ok THEN compacted ELSE Ok(Some(compacted.val)))
        /\ UNCHANGED <<notLoop, provider, tail, model, chat_calls, turn, total_tool_calls,
                       usage, attempt, text_buf, tool_calls, stop_reason, exec_i, consumed,
                       log>>

\* summarize_via_llm: stream.next() yields an event; a TextDelta is collected, a
\* MessageEnd breaks the loop, any other event is ignored
LoopSummaryEvent ==
    /\ pc = "summarize"
    /\ stream[1].items # <<>>
    /\ Head(stream[1].items).ok
    /\ stream' = Some([stream[1] EXCEPT !.items = Tail(@)])
    /\ LET event == Head(stream[1].items).val
       IN  IF event.type = "MessageEnd"
           THEN /\ summary' = summary
                /\ SummaryReturns(summary_result(summary))
           ELSE /\ summary' = IF event.type = "TextDelta" THEN summary \o event.text
                              ELSE summary
                /\ UNCHANGED <<notLoop, provider, tail, model, chat_calls, pc, turn,
                               session, total_tool_calls, usage, request, attempt,
                               text_buf, tool_calls, stop_reason, exec_i, result,
                               consumed, log>>

\* summarize_via_llm: stream.next() yields an error, which it returns
LoopSummaryError ==
    /\ pc = "summarize"
    /\ stream[1].items # <<>>
    /\ ~Head(stream[1].items).ok
    /\ stream' = Some([stream[1] EXCEPT !.items = Tail(@)])
    /\ summary' = summary
    /\ SummaryReturns(Err(Head(stream[1].items).val))

\* summarize_via_llm: stream.next() yields None.  A stream that goes silent instead is
\* awaited for ever: stream.next() has no timeout here
LoopSummaryEnd ==
    /\ pc = "summarize"
    /\ stream[1].items = <<>>
    /\ stream[1].ending = "end"
    /\ UNCHANGED <<stream, summary>>
    /\ SummaryReturns(summary_result(summary))

\* one attempt of the acquisition loop: provider.stream_chat(request.clone())
LoopAcquire ==
    /\ pc = "acquire"
    /\ \E a \in Answers :
         /\ chat_calls' = chat_calls + 1
         /\ IF a.kind = "stream"
            THEN /\ stream' = Some([items |-> a.items, ending |-> a.ending])
                 /\ text_buf' = <<>>
                 /\ tool_calls' = <<>>
                 /\ stop_reason' = EndTurn
                 /\ consumed' = <<>>
                 /\ pc' = "stream"
                 /\ log' = Append(log, [op |-> "stream_chat", turn |-> turn,
                                        attempt |-> attempt, ok |-> TRUE])
                 /\ UNCHANGED result
            ELSE IF ShouldRetry(attempt, a.err)
            THEN /\ pc' = "sleep"
                 /\ log' = log \o <<[op |-> "stream_chat", turn |-> turn,
                                     attempt |-> attempt, ok |-> FALSE, err |-> a.err],
                                    [op |-> "sleep", turn |-> turn, secs |-> 2 ^ attempt]>>
                 /\ UNCHANGED <<stream, text_buf, tool_calls, stop_reason, consumed,
                                result>>
            ELSE /\ pc' = "done"
                 /\ result' = Some(Err(a.err))
                 /\ log' = Append(log, [op |-> "stream_chat", turn |-> turn,
                                        attempt |-> attempt, ok |-> FALSE, err |-> a.err])
                 /\ UNCHANGED <<stream, text_buf, tool_calls, stop_reason, consumed>>
    /\ UNCHANGED <<notLoop, provider, tail, model, summary, turn, session,
                   total_tool_calls, usage, request, attempt, exec_i>>

\* sleep(delay) is over: the next attempt
LoopWake ==
    /\ pc = "sleep"
    /\ attempt' = attempt + 1
    /\ pc' = "acquire"
    /\ UNCHANGED <<notLoop, provider, tail, model, summary, chat_calls, turn, session,
                   total_tool_calls, usage, request, stream, text_buf, tool_calls,
                   stop_reason, exec_i, result, consumed, log>>

\* stream.next() yields an event
LoopEvent ==
    /\ pc = "stream"
    /\ stream[1].items # <<>>
    /\ Head(stream[1].items).ok
    /\ LET event == Head(stream[1].items).val
       IN  /\ consumed' = Append(consumed, event)
           /\ text_buf' = TextAfter(text_buf, event)
           /\ tool_calls' =
                 IF event.type = "ToolUse"
                 THEN Append(tool_calls, PendingToolCall(event.id, event.name, event.input))
                 ELSE tool_calls
           /\ stop_reason' = IF event.type = "MessageEnd" THEN event.stop_reason
                             ELSE stop_reason
           /\ usage' =
                 IF event.type = "UsageUpdate"
                 THEN [input_tokens |-> usage.input_tokens + event.input_tokens,
                       output_tokens |-> usage.output_tokens + event.output_tokens,
                       cache_creation_input_tokens |->
                           usage.cache_creation_input_tokens
                             + event.cache_creation_input_tokens,
                       cache_read_input_tokens |->
                           usage.cache_read_input_tokens + event.cache_read_input_tokens]
                 ELSE usage
    /\ stream' = Some([stream[1] EXCEPT !.items = Tail(@)])
    /\ UNCHANGED <<notLoop, provider, tail, model, summary, chat_calls, pc, turn, session,
                   total_tool_calls, request, attempt, exec_i, result, log>>

\* stream.next() yields an error: `event?` returns it
LoopStreamError ==
    /\ pc = "stream"
    /\ stream[1].items # <<>>
    /\ ~Head(stream[1].items).ok
    /\ result' = Some(Err(Head(stream[1].items).val))
    /\ pc' = "done"
    /\ stream' = Some([stream[1] EXCEPT !.items = Tail(@)])
    /\ UNCHANGED <<notLoop, provider, tail, model, summary, chat_calls, turn, session,
                   total_tool_calls, usage, request, attempt, text_buf, tool_calls,
                   stop_reason, exec_i, consumed, log>>

\* after the consumption loop: the assistant message, then the decision
FinishTurn ==
    LET content == AssistantContent(text_buf, tool_calls)
    IN  /\ session' = add_assistant_message(session, content)
        /\ IF ContinuesWithTools(tool_calls, stop_reason)
           THEN /\ pc' = "exec"
                /\ exec_i' = 1
                /\ result' = result
           ELSE /\ result' = Some(Ok(AgentResult(text_buf, total_tool_calls, usage)))
                /\ pc' = "done"
                /\ exec_i' = exec_i
        /\ UNCHANGED <<notLoop, provider, tail, model, summary, chat_calls, turn,
                       total_tool_calls, usage, request, attempt, stream, text_buf,
                       tool_calls, stop_reason, consumed, log>>

\* stream.next() yields None: the stream has ended
LoopStreamEnd ==
    /\ pc = "stream"
    /\ stream[1].items = <<>>
    /\ stream[1].ending = "end"
    /\ FinishTurn

\* no item within stream_timeout (300 s)
LoopTimeout ==
    /\ pc = "stream"
    /\ stream[1].items = <<>>
    /\ stream[1].ending = "stall"
    /\ FinishTurn

\* the tool loop reaches a call: total_tool_calls += 1, then tools.execute(..) is called
LoopToolCall ==
    /\ pc = "exec"
    /\ LET tc == tool_calls[exec_i]
       IN  /\ total_tool_calls' = total_tool_calls + 1
           /\ log' = Append(log, [op |-> "execute", turn |-> turn, id |-> tc.id,
                                  messages |-> Len(session)])
    /\ pc' = "tool"
    /\ UNCHANGED <<notLoop, provider, tail, model, summary, chat_calls, turn, session,
                   usage, request, attempt, stream, text_buf, tool_calls, stop_reason,
                   exec_i, result, consumed>>

\* tools.execute(..).await returns: the result message is pushed; after the last call,
\* the next turn, or the return once MAX_AGENT_TURNS turns are used up
LoopToolReturn ==
    /\ pc = "tool"
    /\ LET tc == tool_calls[exec_i]
           r == ToolExecute(tc.name, tc.input)
           tool_result == IF r.ok THEN r.val ELSE ToolErrorResult(r.val)
       IN  /\ session' = push_message(session, ToolResultMessage(tc.id, tool_result))
           /\ IF exec_i < Len(tool_calls)
              THEN /\ exec_i' = exec_i + 1
                   /\ pc' = "exec"
                   /\ UNCHANGED <<turn, result>>
              ELSE /\ exec_i' = 0
                   /\ turn' = turn + 1
                   /\ IF TurnsRemain(turn + 1)
                      THEN /\ pc' = "turn"
                           /\ result' = result
                      ELSE /\ pc' = "done"
                           /\ result' = Some(ExhaustedResult(total_tool_calls, usage))
    /\ UNCHANGED <<notLoop, provider, tail, model, summary, chat_calls, total_tool_calls,
                   usage, request, attempt, stream, text_buf, tool_calls, stop_reason,
                   consumed, log>>

LoopNext ==
    \/ LoopBeginTurn
    \/ LoopSummaryEvent
    \/ LoopSummaryError
    \/ LoopSummaryEnd
    \/ LoopAcquire
    \/ LoopWake
    \/ LoopEvent
    \/ LoopStreamError
    \/ LoopStreamEnd
    \/ LoopTimeout
    \/ LoopToolCall
    \/ LoopToolReturn

(***************************************************************************)
(* The REPL (cli/mod.rs run_repl): what happens to the session and to the  *)
(* configuration between two calls of run_agent_loop                       *)
(***************************************************************************)
\* Session::add_user_message
add_user_message(messages, text) == Append(messages, UserMessage(text))

\* Session::clear_messages
clear_messages(messages) == <<>>

\* llm/models.rs resolve_model_alias
resolve_model_alias(name) ==
    CASE name \in {"sonnet", "claude-sonnet"} -> "claude-sonnet-4-20250514"
      [] name \in {"opus", "claude-opus"} -> "claude-opus-4-20250514"
      [] name \in {"haiku", "claude-haiku"} -> "claude-haiku-3-20250307"
      [] name \in {"gpt4o", "gpt-4o"} -> "gpt-4o"
      [] name \in {"gpt4o-mini", "gpt-4o-mini"} -> "gpt-4o-mini"
      [] name \in {"gpt4-turbo", "gpt-4-turbo"} -> "gpt-4-turbo"
      [] OTHER -> name

\* the lines typed at the prompt that are no commands, and the arguments given to /new
ReplLines == {<<"run echo hello">>}
NewArgs == {"", "sonnet", "gpt4o"}
ModelArgs == {"", "sonnet", "gpt4o"}
ImageLines == {ImagePrompt}

\* lines are submitted while the provider has been called fewer times than this
MaxReplCalls == 3

\* a session file of 8 messages, over the threshold of gpt-4o because of the third one
LoadedBulkSession == SubSeq(LongBulkSession, 1, 8)

\* run_repl waits in readline, on the session that load_or_create_session returned
ReplStart(m, messages) ==
    /\ provider = "scripted"
    /\ tail = "text"
    /\ model = m
    /\ chat_calls = 0
    /\ pc = "prompt"
    /\ turn = 0
    /\ session = messages
    /\ total_tool_calls = 0
    /\ usage = UsageZero
    /\ request = None
    /\ attempt = 0
    /\ stream = None
    /\ summary = <<>>
    /\ text_buf = <<>>
    /\ tool_calls = <<>>
    /\ stop_reason = EndTurn
    /\ exec_i = 0
    /\ result = None
    /\ consumed = <<>>
    /\ log = <<>>

\* run_agent_loop is called and starts its first turn
ReplRuns ==
    /\ pc' = "turn"
    /\ turn' = 0
    /\ total_tool_calls' = 0
    /\ usage' = UsageZero
    /\ request' = None
    /\ attempt' = 0
    /\ stream' = None
    /\ summary' = <<>>
    /\ text_buf' = <<>>
    /\ tool_calls' = <<>>
    /\ stop_reason' = EndTurn
    /\ exec_i' = 0
    /\ result' = None
    /\ consumed' = <<>>
    /\ log' = <<>>
    /\ UNCHANGED <<notLoop, provider, tail, model, chat_calls>>

\* a line that is no command and names no image: session.add_user_message(trimmed),
\* then run_agent_loop
ReplSubmit ==
    /\ pc = "prompt"
    /\ chat_calls < MaxReplCalls
    /\ \E line \in ReplLines : session' = add_user_message(session, line)
    /\ ReplRuns

\* a line that names an image file: a user message of the line and of the Image block
\* of the file when it could be loaded is pushed, then run_agent_loop
ReplSubmitImage ==
    /\ pc = "prompt"
    /\ chat_calls < MaxReplCalls
    /\ \E line \in ImageLines, images \in {<<>>, <<LoadedImage>>} :
          session' = push_message(session, ImageMessage(line, images))
    /\ ReplRuns

\* run_agent_loop has returned: its result is reported and readline is called again
ReplReturn ==
    /\ pc = "done"
    /\ pc' = "prompt"
    /\ UNCHANGED <<notLoop, provider, tail, model, summary, chat_calls, turn, session,
                   total_tool_calls, usage, request, attempt, stream, text_buf, tool_calls,
                   stop_reason, exec_i, result, consumed, log>>

\* /reset: session.clear_messages()
ReplReset ==
    /\ pc = "prompt"
    /\ session' = clear_messages(session)
    /\ UNCHANGED <<notLoop, provider, tail, model, summary, chat_calls, pc, turn,
                   total_tool_calls, usage, request, attempt, stream, text_buf, tool_calls,
                   stop_reason, exec_i, result, consumed, log>>

\* /new [model]: config.model = resolve_model_alias(args) when an argument is given,
\* then session.clear_messages()
ReplNew ==
    /\ pc = "prompt"
    /\ \E args \in NewArgs :
          model' = IF args # "" THEN resolve_model_alias(args) ELSE model
    /\ session' = clear_messages(session)
    /\ UNCHANGED <<notLoop, provider, tail, summary, chat_calls, pc, turn,
                   total_tool_calls, usage, request, attempt, stream, text_buf, tool_calls,
                   stop_reason, exec_i, result, consumed, log>>

\* /model [name]: without a name the model is printed, with one
\* config.model = resolve_model_alias(args); the session is kept
ReplModel ==
    /\ pc = "prompt"
    /\ \E args \in ModelArgs :
          model' = IF args # "" THEN resolve_model_alias(args) ELSE model
    /\ UNCHANGED <<notLoop, provider, tail, summary, chat_calls, pc, turn, session,
                   total_tool_calls, usage, request, attempt, stream, text_buf, tool_calls,
                   stop_reason, exec_i, result, consumed, log>>

\* /compact: compact_messages has returned; its list replaces the session's (an error
\* is printed), the session is saved and readline is called again
CompactReturns(compacted) ==
    /\ session' = IF compacted.ok THEN replace_messages(session, compacted.val)
                  ELSE session
    /\ pc' = "prompt"
    /\ UNCHANGED <<notLoop, provider, tail, model, turn, total_tool_calls, usage, request,
                   attempt, text_buf, tool_calls, stop_reason, exec_i, result, consumed,
                   log>>

\* /compact: compact_messages is called whatever the estimate is.  On a history too
\* short to cut it returns at once; otherwise summarize_via_llm calls
\* provider.stream_chat, whose error is the summarizer's, and whose stream is then read
\* item by item
ReplCompact ==
    /\ pc = "prompt"
    /\ IF CompactCallsProvider(session)
       THEN /\ chat_calls < MaxReplCalls
            /\ \E a \in Answers :
                 /\ chat_calls' = chat_calls + 1
                 /\ IF a.kind = "fail"
                    THEN /\ CompactReturns(compact_messages(session, a))
                         /\ UNCHANGED <<stream, summary>>
                    ELSE /\ stream' = Some([items |-> a.items, ending |-> a.ending])
                         /\ summary' = <<>>
                         /\ pc' = "compact"
                         /\ UNCHANGED <<notLoop, provider, tail, model, turn, session,
                                        total_tool_calls, usage, request, attempt,
                                        text_buf, tool_calls, stop_reason, exec_i,
                                        result, consumed, log>>
       ELSE /\ CompactReturns(compact_messages(session, EmptyAnswer))
            /\ UNCHANGED <<chat_calls, stream, summary>>

\* /compact, in summarize_via_llm: stream.next() yields an event; a TextDelta is
\* collected, a MessageEnd breaks the loop, any other event is ignored
ReplCompactEvent ==
    /\ pc = "compact"
    /\ stream[1].items # <<>>
    /\ Head(stream[1].items).ok
    /\ stream' = Some([stream[1] EXCEPT !.items = Tail(@)])
    /\ chat_calls' = chat_calls
    /\ LET event == Head(stream[1].items).val
       IN  IF event.type = "MessageEnd"
           THEN /\ summary' = summary
                /\ CompactReturns(compact_messages_match(session, summary_result(summary)))
           ELSE /\ summary' = IF event.type = "TextDelta" THEN summary \o event.text
                              ELSE summary
                /\ UNCHANGED <<notLoop, provider, tail, model, pc, turn, session,
                               total_tool_calls, usage, request, attempt, text_buf,
                               tool_calls, stop_reason, exec_i, result, consumed, log>>

\* /compact, in summarize_via_llm: stream.next() yields an error, which it returns
ReplCompactError ==
    /\ pc = "compact"
    /\ stream[1].items # <<>>
    /\ ~Head(stream[1].items).ok
    /\ stream' = Some([stream[1] EXCEPT !.items = Tail(@)])
    /\ UNCHANGED <<summary, chat_calls>>
    /\ CompactReturns(compact_messages_match(session, Err(Head(stream[1].items).val)))

\* /compact, in summarize_via_llm: stream.next() yields None.  A stream that goes
\* silent instead is awaited for ever
ReplCompactEnd ==
    /\ pc = "compact"
    /\ stream[1].items = <<>>
    /\ stream[1].ending = "end"
    /\ UNCHANGED <<stream, summary, chat_calls>>
    /\ CompactReturns(compact_messages_match(session, summary_result(summary)))

ReplNext ==
    \/ LoopNext
    \/ ReplSubmit
    \/ ReplSubmitImage
    \/ ReplReturn
    \/ ReplReset
    \/ ReplNew
    \/ ReplModel
    \/ ReplCompact
    \/ ReplCompactEvent
    \/ ReplCompactError
    \/ ReplCompactEnd

(***************************************************************************)
(* The command policy (tools/policy.rs).  A command, and an allowlist      *)
(* entry, is a sequence of characters.                                     *)
(***************************************************************************)
\* the characters char::is_whitespace accepts, among those the commands are made of
WHITESPACE == {" ", "\t", "\n", "\r"}

UPPERCASE == <<"A", "B", "C", "D", "E", "F", "G", "H", "I", "J", "K", "L", "M",
               "N", "O", "P", "Q", "R", "S", "T", "U", "V", "W", "X", "Y", "Z">>
LOWERCASE == <<"a", "b", "c", "d", "e", "f", "g", "h", "i", "j", "k", "l", "m",
               "n", "o", "p", "q", "r", "s", "t", "u", "v", "w", "x", "y", "z">>

\* str::to_lowercase
ToLowercase(s) ==
    [i \in 1..Len(s) |->
        IF \E k \in 1..Len(UPPERCASE) : UPPERCASE[k] = s[i]
        THEN LOWERCASE[CHOOSE k \in 1..Len(UPPERCASE) : UPPERCASE[k] = s[i]]
        ELSE s[i]]

\* str::contains
StrContains(s, pat) ==
    \E i \in 1..(Len(s) - Len(pat) + 1) : SubSeq(s, i, i + Len(pat) - 1) = pat

\* str::ends_with
EndsWith(s, pat) ==
    Len(s) >= Len(pat) /\ SubSeq(s, Len(s) - Len(pat) + 1, Len(s)) = pat

\* str::trim_start
RECURSIVE TrimStart(_)
TrimStart(s) ==
    IF s # <<>> /\ Head(s) \in WHITESPACE THEN TrimStart(Tail(s)) ELSE s

\* str::trim_end
RECURSIVE TrimEnd(_)
TrimEnd(s) ==
    IF s # <<>> /\ s[Len(s)] \in WHITESPACE THEN TrimEnd(SubSeq(s, 1, Len(s) - 1)) ELSE s

\* str::trim
Trim(s) == TrimEnd(TrimStart(s))

\* split_whitespace().next().unwrap_or(""): the characters up to the first whitespace
\* of a string that does not start with whitespace
RECURSIVE FirstToken(_)
FirstToken(s) ==
    IF s = <<>> \/ Head(s) \in WHITESPACE THEN <<>> ELSE <<Head(s)>> \o FirstToken(Tail(s))

\* the pieces of a path between its '/' separators, in order
RECURSIVE PathSegments(_)
PathSegments(path) ==
    LET i == Find(path, "/") IN
    IF i = 0 THEN <<path>>
    ELSE <<SubSeq(path, 1, i - 1)>> \o PathSegments(SubSeq(path, i + 1, Len(path)))

\* Path::file_name: the last component of the path if it is a normal one.  Empty
\* pieces and "." pieces behind the first one are no components; a leading '/', a
\* leading "." and ".." are components that are not normal.
RECURSIVE LastNormal(_, _)
LastNormal(segs, n) ==
    IF n = 0 THEN None
    ELSE IF segs[n] = <<>> THEN LastNormal(segs, n - 1)
    ELSE IF segs[n] = <<".">> THEN (IF n = 1 THEN None ELSE LastNormal(segs, n - 1))
    ELSE IF segs[n] = <<".", ".">> THEN None
    ELSE Some(segs[n])

FileName(path) == LastNormal(PathSegments(path), Len(PathSegments(path)))

\* has_chain of is_command_allowed
HasChain(cmd) ==
    \/ StrContains(cmd, <<";">>)
    \/ StrContains(cmd, <<"&", "&">>)
    \/ StrContains(cmd, <<"|">>)
    \/ StrContains(cmd, <<BACKTICK>>)
    \/ StrContains(cmd, <<"$", "(">>)
    \/ StrContains(cmd, <<"\n">>)
    \/ StrContains(cmd, <<"\r">>)
    \/ StrContains(cmd, <<"<", "<">>)
    \/ StrContains(cmd, <<"<", "(">>)
    \/ StrContains(cmd, <<">", "(">>)

\* is_command_allowed
is_command_allowed(cmd, list, mode) ==
    IF mode = "full" THEN TRUE
    ELSE IF mode = "deny" THEN FALSE
    ELSE IF mode = "allowlist" THEN
        LET has_chain == HasChain(cmd)
            trimmed == Trim(cmd)
            first_token == FirstToken(trimmed)
            file_name == FileName(first_token)
            bin_name == ToLowercase(IF file_name # None THEN file_name[1] ELSE first_token)
        IN  \E k \in 1..Len(list) :
                LET p == ToLowercase(list[k]) IN
                IF EndsWith(p, <<" ">>)
                THEN StartsWith(ToLowercase(trimmed), p) /\ ~has_chain
                ELSE bin_name = p /\ ~has_chain
    ELSE FALSE

\* the pieces the commands checked are made of
PolPieces ==
    { <<"l", "s">>, <<"L", "S">>, <<"r", "m">>, <<" ">>, <<"/">>, <<".">>, <<";">>, <<"&">>,
      <<"|">>, <<BACKTICK>>, <<"$">>, <<"(">>, <<"<">>, <<">">>, <<"\n">>, <<"\r">> }

MaxPolPieces == 3

\* the commands checked: up to MaxPolPieces pieces in a row
PolCommands ==
    { Flatten(ps) : ps \in UNION { [1..n -> PolPieces] : n \in 0..MaxPolPieces } }

\* the allowlists checked: binary names, prefix patterns, both, none
PolAllowlists ==
    { <<>>,
      << <<"l", "s">> >>,
      << <<"L", "S">> >>,
      << <<"l", "s", " ">> >>,
      << <<"r", "m">>, <<"l", "s", " ", "/">>, <<"l", "s", " ">> >> }

PolStart(cmd, list, mode) ==
    /\ command = cmd
    /\ allowlist = list
    /\ security = mode
    /\ allowed = None

PolIdle == PolStart(<<>>, <<>>, "full")

\* a call of is_command_allowed
PolCheck ==
    /\ allowed = None
    /\ allowed' = Some(is_command_allowed(command, allowlist, security))
    /\ UNCHANGED <<notPol, command, allowlist, security>>

PolNext == PolCheck

(***************************************************************************)
(* The Ctrl+C handler of main (main.rs).  The handler runs on a thread of   *)
(* its own, one invocation at a time, while the main task runs the turn    *)
(* loop.                                                                   *)
(***************************************************************************)
SigIdle ==
    /\ ctrl_c_count = 0
    /\ handler = None
    /\ exit_code = None

\* an interrupt: the closure given to ctrlc::set_handler starts on the handler thread
\* with `let count = ctrl_c_count2.fetch_add(1, SeqCst)` (an AtomicU8 wraps)
CtrlC ==
    /\ exit_code = None
    /\ handler = None
    /\ handler' = Some(ctrl_c_count)
    /\ ctrl_c_count' = (ctrl_c_count + 1) % 256
    /\ UNCHANGED <<notSig, exit_code>>

\* the rest of the closure, once eprint! has written to stderr: std::process::exit(130)
\* when count >= 1, the message and the return otherwise
CtrlCFinish ==
    /\ exit_code = None
    /\ handler # None
    /\ LET count == handler[1]
       IN  exit_code' = IF count >= 1 THEN Some(130) ELSE None
    /\ handler' = None
    /\ UNCHANGED <<notSig, ctrl_c_count>>

\* a step of the turn loop of a process that has not exited
RunningLoopStep ==
    /\ exit_code = None
    /\ LoopNext

SigNext == RunningLoopStep \/ CtrlC \/ CtrlCFinish

(***************************************************************************)
(* Specifications                                                          *)
(***************************************************************************)
\* the SSE parser alone, on every response of SseStreams in every chunking
SseIdle == SseStart(<<>>)

InitSse ==
    /\ \E src \in SseStreams : SseStart(src)
    /\ AnthIdle
    /\ OaiIdle
    /\ OllIdle
    /\ LoopIdle
    /\ PolIdle
    /\ SigIdle

SpecSse == InitSse /\ [][SseNext]_vars

\* the Anthropic translator alone, on every sequence of at most MaxAnthEvents events
InitAnthropic ==
    /\ SseIdle
    /\ AnthIdle
    /\ OaiIdle
    /\ OllIdle
    /\ LoopIdle
    /\ PolIdle
    /\ SigIdle

SpecAnthropic == InitAnthropic /\ [][AnthNext]_vars

\* the OpenAI translator alone, on every sequence of at most MaxOaiEvents events
InitOpenAi ==
    /\ SseIdle
    /\ AnthIdle
    /\ OaiIdle
    /\ OllIdle
    /\ LoopIdle
    /\ PolIdle
    /\ SigIdle

SpecOpenAi == InitOpenAi /\ [][OaiNext]_vars

\* the Ollama translator alone, on every body of OllStreams in every chunking
InitOllama ==
    /\ SseIdle
    /\ AnthIdle
    /\ OaiIdle
    /\ \E src \in OllStreams : OllStart(src)
    /\ LoopIdle
    /\ PolIdle
    /\ SigIdle

SpecOllama == InitOllama /\ [][OllNext]_vars

\* run_agent_loop on every session of Sessions, against the Anthropic provider (with the
\* default model and with a model the catalogue does not list) and against any other
\* implementor of LlmProvider, and on the sessions at the edge of either threshold
InitLoop ==
    /\ SseIdle
    /\ AnthIdle
    /\ OaiIdle
    /\ OllIdle
    /\ \/ \E messages \in Sessions :
             \/ \E m \in {DefaultModel, UnlistedModel} :
                   LoopStart("anthropic", "text", m, messages)
             \/ \E t \in {"tool", "tools", "text"} : LoopStart("scripted", t, Gpt4o, messages)
       \/ \E messages \in EdgeSessions \cup WideEdgeSessions, m \in {DefaultModel, Gpt4o} :
             LoopStart("scripted", "text", m, messages)
       \/ \E messages \in ImageSessions, t \in {"tool", "text"} :
             LoopStart("scripted", t, Gpt4o, messages)
    /\ PolIdle
    /\ SigIdle

SpecLoop == InitLoop /\ [][LoopNext]_vars

\* run_agent_loop is a sequential async function that its caller awaits: whenever it
\* can take its next step (the sleep is over, the stream yields, ends or times out, the
\* tool returns) it does
SpecLoopFair == SpecLoop /\ WF_vars(LoopNext)

\* is_command_allowed alone, on every command of PolCommands and allowlist of
\* PolAllowlists under "allowlist", and on some commands under every other mode
InitPolicy ==
    /\ SseIdle
    /\ AnthIdle
    /\ OaiIdle
    /\ OllIdle
    /\ LoopIdle
    /\ \/ \E cmd \in PolCommands, list \in PolAllowlists : PolStart(cmd, list, "allowlist")
       \/ \E cmd \in PolPieces, list \in PolAllowlists, mode \in {"full", "deny", "ask"} :
             PolStart(cmd, list, mode)
    /\ SigIdle

SpecPolicy == InitPolicy /\ [][PolNext]_vars

\* the process while it runs the turn loop, with the user pressing Ctrl+C at any moment
InitInterrupt ==
    /\ SseIdle
    /\ AnthIdle
    /\ OaiIdle
    /\ OllIdle
    /\ \E messages \in Sessions :
          \/ LoopStart("anthropic", "text", UnlistedModel, messages)
          \/ LoopStart("scripted", "tool", Gpt4o, messages)
    /\ PolIdle
    /\ SigIdle

SpecInterrupt == InitInterrupt /\ [][SigNext]_vars

\* run_repl on a new session and on a loaded one: lines are submitted, each starting a
\* run of the turn loop, and /reset and /new are given between the runs
InitRepl ==
    /\ SseIdle
    /\ AnthIdle
    /\ OaiIdle
    /\ OllIdle
    /\ \E messages \in {<<>>, LoadedBulkSession} : ReplStart(Gpt4o, messages)
    /\ PolIdle
    /\ SigIdle

SpecRepl == InitRepl /\ [][ReplNext]_vars

(***************************************************************************)
(* Properties                                                              *)
(***************************************************************************)
\* the events among the yielded items
RECURSIVE OkVals(_)
OkVals(items) ==
    IF items = <<>> THEN <<>>
    ELSE (IF Head(items).ok THEN <<Head(items).val>> ELSE <<>>) \o OkVals(Tail(items))

NoErr(items) == \A i \in 1..Len(items) : items[i].ok

\* C1: for every byte stream, whatever chunks it arrives in, the parser yields the
\* events it yields when the stream arrives as one chunk (no transport failure).
C1_ChunkingIndependent ==
    (sse_eof /\ NoErr(sse_out)) => OkVals(sse_out) = SseRun(SseNew, <<sse_src>>)

\* the items past the first Len(before) of a sequence that has grown
NewItems(before, after) == SubSeq(after, Len(before) + 1, Len(after))

Count(items, ty) == Cardinality({ i \in 1..Len(items) : IsOk(items[i], ty) })

\* the ToolUse events among the items, in order
RECURSIVE ToolUses(_)
ToolUses(items) ==
    IF items = <<>> THEN <<>>
    ELSE (IF IsOk(Head(items), "ToolUse") THEN <<Head(items).val>> ELSE <<>>)
           \o ToolUses(Tail(items))

\* An Anthropic response that carries its completion signal: every item an event, no
\* error event, one message_delta (with a stop reason) and one message_stop, at the end.
AnthWellFormed(in) ==
    LET n == Len(in)
        closing == {Ok(EvMsgDeltaTool), Ok(EvMsgDeltaEnd), Ok(EvMsgStop), Ok(EvError)}
    IN  /\ n >= 2
        /\ NoErr(in)
        /\ in[n] = Ok(EvMsgStop)
        /\ in[n - 1] \in {Ok(EvMsgDeltaTool), Ok(EvMsgDeltaEnd)}
        /\ \A i \in 1..(n - 2) : in[i] \notin closing

\* C2: once a well-formed Anthropic response has been translated to its end, the
\* emitted events contain exactly one MessageEnd and it is the last of them.
C2_OneMessageEndLast ==
    (anth_eof /\ AnthWellFormed(anth_in))
        => /\ Count(anth_out, "MessageEnd") = 1
           /\ IsOk(anth_out[Len(anth_out)], "MessageEnd")

\* the lines of a body: the texts between line feeds, the unterminated rest included
RECURSIVE OllSplit(_)
OllSplit(body) ==
    LET p == Find(body, "\n")
    IN  IF p = 0 THEN <<body>>
        ELSE <<SubSeq(body, 1, p - 1)>> \o OllSplit(SubSeq(body, p + 1, Len(body)))

\* the chunks the lines of a body parse to, up to and including the first done:true
RECURSIVE OllChunksToDone(_)
OllChunksToDone(ls) ==
    IF ls = <<>> THEN <<>>
    ELSE LET c == oll_from_str(TrimLine(Head(ls)))
         IN  IF c = None THEN OllChunksToDone(Tail(ls))
             ELSE IF c[1].done THEN <<c[1]>>
             ELSE <<c[1]>> \o OllChunksToDone(Tail(ls))

HasDone(body) ==
    LET cs == OllChunksToDone(OllSplit(body))
    IN  cs # <<>> /\ cs[Len(cs)].done

\* the tool calls of the chunks, in the order the chunks carry them
RECURSIVE OllCalls(_)
OllCalls(cs) ==
    IF cs = <<>> THEN <<>>
    ELSE unwrap_or(Head(cs).message.tool_calls, <<>>) \o OllCalls(Tail(cs))

\* the part of the body the translator has been given so far
OllDelivered == SubSeq(oll_src, 1, Len(oll_src) - Len(oll_inner))

OllProduced == oll_out \o oll.pending

\* C3: no ToolUse is produced before the done:true line has been delivered, and when a
\* body with a done:true line has been translated to its end without a read error, the
\* ToolUse events are the tool calls of the chunks up to that line, each once (under an id
\* of its own), in the order in which they were seen.
C3_ToolCallsOnceAfterDone ==
    /\ Count(OllProduced, "ToolUse") > 0 => HasDone(OllDelivered)
    /\ (oll_eof /\ NoErr(oll_out) /\ HasDone(oll_src))
          => LET uses == ToolUses(oll_out)
                 calls == OllCalls(OllChunksToDone(OllSplit(oll_src)))
             IN  /\ Len(uses) = Len(calls)
                 /\ \A i \in 1..Len(uses) :
                       /\ uses[i].name = calls[i].function.name
                       /\ uses[i].input = calls[i].function.arguments
                 /\ \A i, j \in 1..Len(uses) : uses[i].id = uses[j].id => i = j

\* two tool calls of two chunks have been emitted, in the order of the chunks
C3_Witness ==
    /\ oll_eof
    /\ NoErr(oll_out)
    /\ HasDone(oll_src)
    /\ Len(ToolUses(oll_out)) = 2
    /\ ToolUses(oll_out)[1].name = <<"bash">>
    /\ ToolUses(oll_out)[2].name = <<"read">>

AnthProduced == anth_out \o anth.pending

\* the partial_json text an input_json_delta event carries
AnthFragment(item) ==
    CASE item = Ok(EvJson1) -> <<ARG_OPEN>>
      [] item = Ok(EvJson2) -> <<ARG_CLOSE>>
      [] OTHER -> <<>>

IsFragment(item) == item \in {Ok(EvJson1), Ok(EvJson2)}

\* the received events end with an open tool_use block: its content_block_start
\* at position i, and input_json_delta events only after it
OpenToolBlock(in, i) ==
    /\ i \in 1..Len(in)
    /\ in[i] = Ok(EvStartTool)
    /\ \A k \in (i + 1)..Len(in) : IsFragment(in[k])

RECURSIVE AnthFragments(_)
AnthFragments(items) ==
    IF items = <<>> THEN <<>> ELSE AnthFragment(Head(items)) \o AnthFragments(Tail(items))

\* C4: a content_block_start produces no event, and neither does an input_json_delta of
\* an open tool_use block; the content_block_stop that closes the block produces exactly
\* one event, the ToolUse with the id and name of content_block_start and the input the
\* fragments, concatenated in arrival order, parse to (the empty object when they do not
\* parse); a second content_block_stop after it produces nothing more.
C4_ToolUseAtBlockStop ==
    [][Len(anth_in') = Len(anth_in) + 1
         => LET ev == anth_in'[Len(anth_in')]
                new == NewItems(AnthProduced, AnthProduced')
            IN  /\ ev = Ok(EvStartTool) => new = <<>>
                /\ (ev = Ok(EvBlockStop) /\ anth_in # <<>>
                      /\ anth_in[Len(anth_in)] = Ok(EvBlockStop)
                      /\ \E i \in 1..Len(anth_in) :
                            OpenToolBlock(SubSeq(anth_in, 1, Len(anth_in) - 1), i))
                     => new = <<>>
                /\ \A i \in 1..Len(anth_in) :
                      OpenToolBlock(anth_in, i)
                         => LET text == AnthFragments(SubSeq(anth_in, i + 1, Len(anth_in)))
                            IN  /\ IsFragment(ev) => new = <<>>
                                /\ ev = Ok(EvBlockStop)
                                      => new = <<Ok(ToolUse(<<"t1">>, <<"bash">>,
                                                   unwrap_or(from_str(text), JObj({}))))>>]_vars

\* a block of two fragments has been closed and its ToolUse emitted with the parsed input
C4_Witness ==
    /\ Len(anth_in) = 4
    /\ OpenToolBlock(SubSeq(anth_in, 1, 3), 1)
    /\ anth_in[2] = Ok(EvJson1)
    /\ anth_in[3] = Ok(EvJson2)
    /\ anth_in[4] = Ok(EvBlockStop)
    /\ anth_out = <<Ok(ToolUse(<<"t1">>, <<"bash">>, ArgsLs))>>
OaiProduced == oai_out \o oai.pending

\* what a tool-call chunk carries for its stream index: id, name, argument fragment
OaiFragment(item) ==
    CASE item = Ok(OaiEv(O_TC0_OPEN)) ->
             [index |-> 0, id |-> Some(<<"c0">>), name |-> Some(<<"bash">>),
              args |-> <<ARG_OPEN>>]
      [] item = Ok(OaiEv(O_TC0_CLOSE)) ->
             [index |-> 0, id |-> None, name |-> None, args |-> <<ARG_CLOSE>>]
      [] item = Ok(OaiEv(O_TC1)) ->
             [index |-> 1, id |-> Some(<<"c1">>), name |-> Some(<<"read">>),
              args |-> <<ARG_EMPTY>>]

IsOaiFragment(item) ==
    item \in {Ok(OaiEv(O_TC0_OPEN)), Ok(OaiEv(O_TC0_CLOSE)), Ok(OaiEv(O_TC1))}

\* the received items after the last finish_reason "tool_calls"
RECURSIVE SinceFlush(_)
SinceFlush(in) ==
    IF in = <<>> \/ in[Len(in)] = Ok(OaiEv(O_FINISH_TOOLS)) THEN <<>>
    ELSE Append(SinceFlush(SubSeq(in, 1, Len(in) - 1)), in[Len(in)])

\* the tool-call fragments of one stream index among the items, in arrival order
RECURSIVE FragmentsOf(_, _)
FragmentsOf(in, index) ==
    IF in = <<>> THEN <<>>
    ELSE (IF IsOaiFragment(Head(in)) /\ OaiFragment(Head(in)).index = index
          THEN <<OaiFragment(Head(in))>> ELSE <<>>) \o FragmentsOf(Tail(in), index)

\* the last id (name) a fragment carried, the empty text if none did
RECURSIVE LastOf(_, _)
LastOf(frs, field) ==
    IF frs = <<>> THEN <<>>
    ELSE IF frs[Len(frs)][field] # None THEN frs[Len(frs)][field][1]
    ELSE LastOf(SubSeq(frs, 1, Len(frs) - 1), field)

RECURSIVE ArgsOf(_)
ArgsOf(frs) == IF frs = <<>> THEN <<>> ELSE Head(frs).args \o ArgsOf(Tail(frs))

\* the ToolUse events due for the stream indices from index upwards
RECURSIVE OaiExpected(_, _)
OaiExpected(in, index) ==
    IF index > 1 THEN <<>>
    ELSE LET frs == FragmentsOf(in, index)
         IN  (IF frs = <<>> THEN <<>>
              ELSE <<Ok(ToolUse(LastOf(frs, "id"), LastOf(frs, "name"),
                                OaiToolInput(ArgsOf(frs))))>>)
               \o OaiExpected(in, index + 1)

\* C5: the chunk whose finish_reason is "tool_calls" produces one ToolUse for each stream
\* index that has received fragments since the previous such chunk, by ascending index,
\* with the index's argument fragments concatenated in arrival order, and the MessageEnd
\* after them; the fragments themselves produce nothing.
C5_FlushAscendingOnce ==
    [][Len(oai_in') = Len(oai_in) + 1
         => LET ev == oai_in'[Len(oai_in')]
                new == NewItems(OaiProduced, OaiProduced')
            IN  /\ IsOaiFragment(ev) => new = <<>>
                /\ ev = Ok(OaiEv(O_FINISH_TOOLS))
                      => new = OaiExpected(SinceFlush(oai_in), 0)
                                 \o <<Ok(MessageEnd(ToolUseStop))>>]_vars

\* fragments of index 0 interleaved with index 1 have been flushed: c0 (with its two
\* fragments joined), then c1, then the MessageEnd
C5_Witness ==
    /\ oai_in = <<Ok(OaiEv(O_TC0_OPEN)), Ok(OaiEv(O_TC1)), Ok(OaiEv(O_TC0_CLOSE)),
                  Ok(OaiEv(O_FINISH_TOOLS))>>
    /\ OaiProduced = <<Ok(ToolUse(<<"c0">>, <<"bash">>, ArgsLs)),
                       Ok(ToolUse(<<"c1">>, <<"read">>, JObj({}))),
                       Ok(MessageEnd(ToolUseStop))>>

IsErrResult(r) == r # None /\ ~r[1].ok
IsOkResult(r) == r # None /\ r[1].ok

\* the step on which a turn's consumption ends without an error
Decides == pc = "stream" /\ pc' # "stream" /\ ~IsErrResult(result')

\* a tool is executed only in the tool loop, which is entered only on ToolUse with a call
ToolsOnlyAfterToolUse ==
    total_tool_calls' # total_tool_calls
       => pc = "exec" /\ stop_reason = ToolUseStop /\ tool_calls # <<>>

\* the decision: on ToolUse with at least one buffered call the tool loop is entered and
\* nothing is returned; otherwise the result is returned and no tool is executed
DecidesByStopReason ==
    Decides
       => IF stop_reason = ToolUseStop /\ tool_calls # <<>>
          THEN pc' = "exec" /\ result' = None
          ELSE pc' = "done" /\ IsOkResult(result')
                 /\ total_tool_calls' = total_tool_calls

\* the step in which the last buffered call of a turn returns
LastToolDone == pc = "tool" /\ exec_i = Len(tool_calls)

\* C6 as stated: tools are executed and another turn is started if and only if the stop
\* reason is ToolUse and a call is buffered; otherwise the result is returned.
C6_ContinueIffToolUse ==
    [][/\ ToolsOnlyAfterToolUse
       /\ DecidesByStopReason
       /\ LastToolDone => (pc' = "turn" /\ turn' = turn + 1 /\ result' = None)]_vars

\* C6, amended: tools are executed if and only if the stop reason is ToolUse and a call
\* is buffered, otherwise the result is returned with no tool executed; after the tools
\* another turn is started unless the turn was the MAX_AGENT_TURNS-th, and then the
\* run returns a success value.
C6_ContinueIffToolUseWithinBound ==
    [][/\ ToolsOnlyAfterToolUse
       /\ DecidesByStopReason
       /\ LastToolDone
             => /\ turn' = turn + 1
                /\ IF turn + 1 < MAX_AGENT_TURNS
                   THEN pc' = "turn" /\ result' = None
                   ELSE pc' = "done" /\ IsOkResult(result')]_vars

\* the 20th turn has executed its tools and the run has returned
C6_Witness ==
    /\ pc = "done"
    /\ turn = MAX_AGENT_TURNS
    /\ IsOkResult(result)
    /\ stop_reason = ToolUseStop
    /\ total_tool_calls >= MAX_AGENT_TURNS

\* C7: once a MessageEnd has been received in a turn, no further event of the turn's
\* stream is consumed: stop reason, text, tool calls and usage stay as they are.
C7_NothingAfterMessageEnd ==
    [][(pc = "stream" /\ \E i \in 1..Len(consumed) : consumed[i].type = "MessageEnd")
          => UNCHANGED <<consumed, stop_reason, text_buf, tool_calls, usage>>]_vars

\* the stream_chat calls of the turn loop for turn t, in order
RECURSIVE AcquisitionsOf(_, _)
AcquisitionsOf(l, t) ==
    IF l = <<>> THEN <<>>
    ELSE (IF Head(l).op = "stream_chat" /\ Head(l).turn = t THEN <<Head(l)>> ELSE <<>>)
           \o AcquisitionsOf(Tail(l), t)

\* C8: a turn makes at most MAX_RETRIES + 1 = 3 stream_chat calls, numbered 0, 1, 2 in
\* order; a failure of attempt k < 2 with a transient text is followed by a sleep of 2^k
\* seconds and then by attempt k + 1; any other failure ends the run with that error.
C8_BoundedRetry ==
    /\ [](\A t \in 0..(MAX_AGENT_TURNS - 1) :
             LET acq == AcquisitionsOf(log, t)
             IN  /\ Len(acq) <= MAX_RETRIES + 1
                 /\ \A i \in 1..Len(acq) : acq[i].attempt = i - 1)
    /\ [][LET new == NewItems(log, log')
          IN  /\ (new # <<>> /\ new[1].op = "stream_chat" /\ ~new[1].ok)
                    => IF new[1].attempt < 2 /\ is_retryable_error(new[1].err)
                       THEN /\ new = <<new[1], [op |-> "sleep", turn |-> turn,
                                                secs |-> 2 ^ new[1].attempt]>>
                            /\ pc' = "sleep"
                            /\ result' = None
                       ELSE /\ new = <<new[1]>>
                            /\ pc' = "done"
                            /\ result' = Some(Err(new[1].err))
              /\ pc = "sleep"
                    => /\ pc' = "acquire"
                       /\ attempt' = attempt + 1
                       /\ log' = log
              /\ pc = "done" => log' = log]_vars

\* a turn has failed three times with a transient error, slept 1 s and 2 s in between,
\* and the run has ended with the error
C8_Witness ==
    /\ pc = "done"
    /\ result = Some(Err(E_TRANSIENT))
    /\ \E k \in 0..Len(log) :
          /\ Len(log) = k + 5
          /\ log[k + 1].op = "stream_chat" /\ ~log[k + 1].ok /\ log[k + 1].attempt = 0
          /\ log[k + 2].op = "sleep" /\ log[k + 2].secs = 1
          /\ log[k + 3].op = "stream_chat" /\ ~log[k + 3].ok /\ log[k + 3].attempt = 1
          /\ log[k + 4].op = "sleep" /\ log[k + 4].secs = 2
          /\ log[k + 5].op = "stream_chat" /\ ~log[k + 5].ok /\ log[k + 5].attempt = 2

\* the errors classify_http_error gives for the transient statuses
TransientHttpErrors ==
    { classify_http_error(429, <<A_OVERLOADED_BODY>>),
      classify_http_error(529, <<A_OVERLOADED_BODY>>),
      classify_http_error(503, <<A_OVERLOADED_BODY>>) }

\* C9: when the run against the Anthropic provider ends with the error of a transient
\* HTTP status (429, 529, 503), the turn's request has been issued more than once.
C9_TransientStatusRetried ==
    (provider = "anthropic" /\ pc = "done" /\ IsErrResult(result)
       /\ result[1].val \in TransientHttpErrors)
        => Len(AcquisitionsOf(log, turn)) > 1

\* an error is the last item of the stream that carries it
ErrorEndsStream(items) == \A i \in 1..Len(items) : ~items[i].ok => i = Len(items)

\* C10: an error delivered as an item of the event stream ends the stream, and the run
\* returns it without another stream_chat call, whatever its text.  In three parts:
\* (1) every stream the loop holds carries at most one error, as its last item, also
\* when the SSE events or the transport go on after the `error` event or the read
\* failure; (2) the step that takes an error item from the stream of a turn ends the run
\* with exactly that error, and makes no stream_chat call, no sleep and no tool call
\* (the log and the call count are unchanged) and leaves the session as it was; (3) once
\* the run has returned, no call follows and the result stays.
C10_StreamErrorReturned ==
    /\ [](stream # None => ErrorEndsStream(stream[1].items))
    /\ [][(pc = "stream" /\ stream[1].items # <<>> /\ ~Head(stream[1].items).ok)
            => /\ pc' = "done"
               /\ result' = Some(Err(Head(stream[1].items).val))
               /\ UNCHANGED <<log, chat_calls, session, total_tool_calls>>]_vars
    /\ [][pc = "done" => UNCHANGED <<log, chat_calls, result>>]_vars

\* the run against the Anthropic provider has ended with the error of an `error` event,
\* received after a text delta, with one stream_chat call in the turn
C10_Witness ==
    /\ provider = "anthropic"
    /\ pc = "done"
    /\ result = Some(Err(<<"Anthropic stream error: ", "boom">>))
    /\ consumed = <<TextDelta(<<"Hello">>)>>
    /\ Len(AcquisitionsOf(log, turn)) = 1

\* the statuses of auth and billing failures
FatalStatuses == {401, 403, 402}

\* C11: no error classify_http_error produces for status 401, 403 or 402 is transient
\* for is_retryable_error, whatever the body: when the run against the Anthropic
\* provider ends with the error of such a response, that error is not retryable.
C11_FatalHttpNotTransient ==
    (provider = "anthropic" /\ pc = "done" /\ IsErrResult(result))
       => \A r \in AnthropicResponses :
             (r.status \in FatalStatuses
                /\ result[1].val = classify_http_error(r.status, r.body))
                => ~is_retryable_error(result[1].val)

\* the positions of the turn loop inside a turn
InTurn == pc \in {"turn", "summarize", "acquire", "sleep", "stream", "exec", "tool"}

\* summarize_via_llm awaits an item of a stream that has gone silent
SummaryStalled ==
    /\ pc = "summarize"
    /\ stream[1].items = <<>>
    /\ stream[1].ending = "stall"

\* C12: run_agent_loop runs at most MAX_AGENT_TURNS = 20 turns: every request,
\* summarization and tool call belongs to one of the turns 0..19; when the 20th turn
\* ends with its tool calls the run returns a success value and issues no further
\* request; and, unless a summarization stream never ends, the run terminates.
C12_BoundedTurns ==
    /\ [](turn <= MAX_AGENT_TURNS)
    /\ [](InTurn => turn < MAX_AGENT_TURNS)
    /\ [](\A i \in 1..Len(log) : log[i].turn < MAX_AGENT_TURNS)
    /\ [][(LastToolDone /\ turn + 1 = MAX_AGENT_TURNS)
            => /\ pc' = "done"
               /\ IsOkResult(result')
               /\ chat_calls' = chat_calls]_vars
    /\ [][pc = "done" => UNCHANGED <<chat_calls, turn, session>>]_vars
    /\ <>(pc = "done" \/ SummaryStalled)

\* all 20 turns have ended with ToolUse and a tool call, one request each, and the run
\* has returned a success value
C12_Witness ==
    /\ pc = "done"
    /\ IsOkResult(result)
    /\ turn = MAX_AGENT_TURNS
    /\ \A t \in 0..(MAX_AGENT_TURNS - 1) :
          /\ Len(AcquisitionsOf(log, t)) = 1
          /\ \E i \in 1..Len(log) : log[i].op = "execute" /\ log[i].turn = t

\* C13: when the turn bound is exhausted, the result returned is the partial result:
\* the number of tool calls executed, the usage accumulated over all turns, and the
\* assistant text produced by the last turn.
C13_ExhaustedResultIsPartial ==
    (pc = "done" /\ turn = MAX_AGENT_TURNS /\ IsOkResult(result))
       => result[1].val = AgentResult(text_buf, total_tool_calls, usage)

\* the block is a ToolResult whose id is that of no ToolUse block in an assistant
\* message earlier in the list
Orphan(msgs, i, k) ==
    /\ msgs[i].content[k].type = "tool_result"
    /\ ~\E j \in 1..(i - 1) :
          /\ msgs[j].role = Assistant
          /\ \E m \in 1..Len(msgs[j].content) :
                /\ msgs[j].content[m].type = "tool_use"
                /\ msgs[j].content[m].id = msgs[i].content[k].tool_use_id

\* C14: in every session state reachable through run_agent_loop, also right after
\* compaction has replaced the list, each ToolResult block refers to a ToolUse block of
\* an earlier assistant message of the current list.
C14_ToolResultsHaveToolUse ==
    \A i \in 1..Len(session) : \A k \in 1..Len(session[i].content) :
        ~Orphan(session, i, k)

\* the ids of the tool calls executed in turn t, in the order of execution
RECURSIVE ExecutionsOf(_, _)
ExecutionsOf(l, t) ==
    IF l = <<>> THEN <<>>
    ELSE (IF Head(l).op = "execute" /\ Head(l).turn = t THEN <<Head(l).id>> ELSE <<>>)
           \o ExecutionsOf(Tail(l), t)

\* the ids of the ToolUse blocks of a message, in order
RECURSIVE ToolUseIds(_)
ToolUseIds(content) ==
    IF content = <<>> THEN <<>>
    ELSE (IF Head(content).type = "tool_use" THEN <<Head(content).id>> ELSE <<>>)
           \o ToolUseIds(Tail(content))

\* a user-role message holding exactly one block, the ToolResult of this id
IsResultFor(msg, id) ==
    /\ msg.role = User
    /\ Len(msg.content) = 1
    /\ msg.content[1].type = "tool_result"
    /\ msg.content[1].tool_use_id = id

CallIds == [i \in 1..Len(tool_calls) |-> tool_calls[i].id]

\* C15: when a turn goes on to tool execution with buffered calls c1..cn, the executor
\* is invoked once per call, one at a time and in that order, after the turn's assistant
\* message and the previous call's result message have been appended; the session
\* gains n user-role messages, the i-th holding exactly one ToolResult with the id of ci.
C15_SequentialToolExecution ==
    /\ [](pc \in {"exec", "tool"}
            => LET base == Len(session) - (exec_i - 1)
               IN  /\ base >= 1
                   /\ session[base].role = Assistant
                   /\ ToolUseIds(session[base].content) = CallIds
                   /\ \A j \in 1..(exec_i - 1) :
                         IsResultFor(session[base + j], tool_calls[j].id)
                   /\ ExecutionsOf(log, turn)
                         = SubSeq(CallIds, 1, IF pc = "tool" THEN exec_i ELSE exec_i - 1))
    /\ [][IF pc = "exec"
          THEN /\ NewItems(log, log')
                    = <<[op |-> "execute", turn |-> turn, id |-> tool_calls[exec_i].id,
                         messages |-> Len(session)]>>
               /\ pc' = "tool"
               /\ UNCHANGED <<session, tool_calls, exec_i>>
          ELSE \A i \in 1..Len(log') : i > Len(log) => log'[i].op # "execute"]_vars
    /\ [][pc = "tool"
           => /\ Len(session') = Len(session) + 1
              /\ SubSeq(session', 1, Len(session)) = session
              /\ IsResultFor(session'[Len(session')], tool_calls[exec_i].id)
              /\ tool_calls' = tool_calls
              /\ (exec_i < Len(tool_calls)) => (pc' = "exec" /\ exec_i' = exec_i + 1)
              /\ (exec_i = Len(tool_calls))
                    => (pc' \notin {"exec", "tool"} /\ ExecutionsOf(log', turn) = CallIds)]_vars

\* a turn with two buffered calls has executed both: the last two messages of the
\* session are their results, in the order of the calls
C15_Witness ==
    /\ pc = "turn"
    /\ Len(tool_calls) = 2
    /\ ExecutionsOf(log, turn - 1) = CallIds
    /\ IsResultFor(session[Len(session) - 1], tool_calls[1].id)
    /\ IsResultFor(session[Len(session)], tool_calls[2].id)
    /\ ToolUseIds(session[Len(session) - 2].content) = CallIds

\* the executor returns an error for the i-th buffered call
ExecutorFails(i) == ~ToolExecute(tool_calls[i].name, tool_calls[i].input).ok

\* the step in which the executor returns an error for a call: no error is
\* returned, the result message is flagged and carries the error text, and the tool
\* loop goes on with the next call
ToolErrorFedBack ==
    (pc = "tool" /\ ExecutorFails(exec_i))
       => LET e == ToolExecute(tool_calls[exec_i].name, tool_calls[exec_i].input).val
              msg == session'[Len(session')]
          IN  /\ ~IsErrResult(result')
              /\ Len(session') = Len(session) + 1
              /\ IsResultFor(msg, tool_calls[exec_i].id)
              /\ msg.content[1].is_error
              /\ msg.content[1].content = <<"Error: ">> \o e
              /\ (exec_i < Len(tool_calls)) => (pc' = "exec" /\ exec_i' = exec_i + 1)

\* the last call of a turn returns, and the executor returned an error in the turn
LastToolDoneAfterError == LastToolDone /\ \E i \in 1..exec_i : ExecutorFails(i)

\* C16 as stated: an executor error is not returned; a ToolResult with is_error = true
\* is appended for the call, the remaining calls of the turn are executed, and the next
\* turn is started.
C16_ToolErrorNeverAborts ==
    [][/\ ToolErrorFedBack
       /\ LastToolDoneAfterError => (pc' = "turn" /\ result' = None)]_vars

\* C16, amended: an executor error is not returned; a ToolResult with is_error = true is
\* appended for the call and the remaining calls of the turn are executed; then the next
\* turn is started, unless the turn was the MAX_AGENT_TURNS-th, and then the run
\* returns a success value.
C16_ToolErrorNeverAbortsWithinBound ==
    [][/\ ToolErrorFedBack
       /\ LastToolDoneAfterError
             => IF turn + 1 < MAX_AGENT_TURNS
                THEN pc' = "turn" /\ result' = None
                ELSE pc' = "done" /\ IsOkResult(result')]_vars

\* the executor has failed for the first call of a turn, the second call has been
\* executed all the same, and the next turn is about to start
C16_Witness ==
    /\ pc = "turn"
    /\ result = None
    /\ Len(tool_calls) = 2
    /\ ExecutorFails(1)
    /\ session[Len(session) - 1].content[1].type = "tool_result"
    /\ session[Len(session) - 1].content[1].is_error
    /\ session[Len(session) - 1].content[1].tool_use_id = tool_calls[1].id
    /\ IsResultFor(session[Len(session)], tool_calls[2].id)

\* what a list of received events amounts to: the concatenated text deltas, the tool
\* calls in order of arrival, the stop reason of the last MessageEnd
ReceivedText(events) ==
    LET cat[n \in 0..Len(events)] ==
            IF n = 0 THEN <<>>
            ELSE IF events[n].type = "TextDelta" THEN cat[n - 1] \o events[n].text
            ELSE cat[n - 1]
    IN  cat[Len(events)]

ReceivedCalls(events) ==
    LET cat[n \in 0..Len(events)] ==
            IF n = 0 THEN <<>>
            ELSE IF events[n].type = "ToolUse"
            THEN Append(cat[n - 1],
                        [id |-> events[n].id, name |-> events[n].name,
                         input |-> events[n].input])
            ELSE cat[n - 1]
    IN  cat[Len(events)]

ReceivedStop(events) ==
    LET last[n \in 0..Len(events)] ==
            IF n = 0 THEN EndTurn
            ELSE IF events[n].type = "MessageEnd" THEN events[n].stop_reason
            ELSE last[n - 1]
    IN  last[Len(events)]

\* the assistant message assembled from a list of received events
ReceivedMessage(events) ==
    LET text == ReceivedText(events)
        calls == ReceivedCalls(events)
    IN  [role |-> Assistant,
         content |-> (IF StrLen(text) = 0 THEN <<>> ELSE <<[type |-> "text", text |-> text]>>)
                      \o [i \in 1..Len(calls) |->
                            [type |-> "tool_use", id |-> calls[i].id, name |-> calls[i].name,
                             input |-> calls[i].input]]]

\* the step leaves the consumption loop without an error, appends the message assembled
\* from the received events and then takes the continue/stop decision on them
ProceedsFromReceived ==
    /\ ~IsErrResult(result')
    /\ session' = Append(session, ReceivedMessage(consumed))
    /\ consumed' = consumed
    /\ IF ReceivedCalls(consumed) # <<>> /\ ReceivedStop(consumed) = ToolUseStop
       THEN pc' = "exec" /\ exec_i' = 1 /\ result' = None
       ELSE /\ pc' = "done"
            /\ result' = Some(Ok([text |-> ReceivedText(consumed),
                                  tool_calls |-> total_tool_calls, usage |-> usage]))

StreamStalls == pc = "stream" /\ stream[1].items = <<>> /\ stream[1].ending = "stall"
StreamEnds == pc = "stream" /\ stream[1].items = <<>> /\ stream[1].ending = "end"

\* C17: when no event arrives within the inactivity timeout, the turn stops consuming
\* and proceeds exactly as when the stream ends at that point: no error is returned, and
\* the assistant message assembled from the events received so far is appended before
\* the continue/stop decision.
C17_TimeoutIsEndOfStream ==
    [][/\ StreamStalls => ProceedsFromReceived
       /\ StreamEnds => ProceedsFromReceived]_vars

\* a stream has stalled after a text delta: the turn has ended without an error and the
\* session ends with the assistant message holding that text
C17_Witness ==
    /\ pc = "done"
    /\ stream # None
    /\ stream[1].ending = "stall"
    /\ consumed = <<TextDelta(<<"par">>)>>
    /\ IsOkResult(result)
    /\ session[Len(session)] = AssistantMessage(<<Text(<<"par">>)>>)

\* between the building of the request and the end of the consumption of the stream
AwaitingResponse == pc \in {"acquire", "sleep", "stream"}

\* the turn has a message of its own in the session
TurnLeftMessage(before, after) == Len(after) > Len(before)

\* C18: from the moment a turn's request is built until the consumption of its stream
\* ends the session's messages are not modified (they stay those the request was built
\* from), and when the acquisition or the consumption ends with an error the session is
\* left without an assistant message or a tool result of that turn.
C18_SessionFrozenWhileStreaming ==
    /\ [](AwaitingResponse => (request # None /\ request[1].messages = session))
    /\ [][(AwaitingResponse /\ AwaitingResponse') => session' = session]_vars
    /\ [][(AwaitingResponse /\ IsErrResult(result'))
            => (session' = session /\ pc' = "done"
                  /\ ~TurnLeftMessage(request[1].messages, session'))]_vars
    /\ [][pc = "done" => session' = session]_vars

\* a stream has failed after a text delta in a turn that follows a tool turn: the run
\* has returned the error and the session still ends with the tool result of the turn
\* before
C18_Witness ==
    /\ pc = "done"
    /\ IsErrResult(result)
    /\ turn >= 1
    /\ consumed # <<>>
    /\ request[1].messages = session
    /\ session[Len(session)].role = User
    /\ session[Len(session)].content[1].type = "tool_result"

\* the position at which the summarizer stops reading a stream's items: the first error
\* or MessageEnd, or 0 when there is none
SummaryStop(items) ==
    LET stops == {i \in 1..Len(items) : ~items[i].ok \/ items[i].val.type = "MessageEnd"}
    IN  IF stops = {} THEN 0 ELSE CHOOSE i \in stops : \A j \in stops : i <= j

\* the three ways in which the summarization call fails
StreamChatFails(a) == a.kind = "fail"
SummaryStreamYieldsError(a) ==
    /\ a.kind = "stream"
    /\ SummaryStop(a.items) # 0
    /\ ~a.items[SummaryStop(a.items)].ok
SummaryTextIsEmpty(a) ==
    /\ a.kind = "stream"
    /\ LET stop == SummaryStop(a.items)
           upto == IF stop = 0 THEN Len(a.items) ELSE stop
       IN  /\ IF stop = 0 THEN a.ending = "end" ELSE a.items[stop].ok
           /\ \A i \in 1..upto :
                 a.items[i].val.type = "TextDelta" => StrLen(a.items[i].val.text) = 0
SummarizationFails(a) ==
    StreamChatFails(a) \/ SummaryStreamYieldsError(a) \/ SummaryTextIsEmpty(a)

\* the first message followed by the last KEEP_RECENT_MESSAGES messages
FirstAndRecent(messages) ==
    <<messages[1]>> \o [i \in 1..6 |-> messages[Len(messages) - 6 + i]]

\* the turn is about to compact a history long enough for a summarization call
CompactionDue ==
    /\ pc = "turn"
    /\ Len(session) > 7
    /\ NeedsCompaction(session, model, SystemPrompt, ToolDefsTokens)

\* summarize_via_llm is reading the summary stream
Summarizing == pc = "summarize"

\* the step on which summarize_via_llm returns from its loop
SummaryComesBack == Summarizing /\ pc' # "summarize"

\* the summary stream yields an error, or the collected text is empty
SummaryFailsNow ==
    \/ stream[1].items # <<>> /\ ~Head(stream[1].items).ok
    \/ StrLen(summary) = 0

\* C19: when the summarization call fails (stream_chat returns an error, the stream
\* yields an error, or the collected summary is empty) compact_messages returns success
\* with the first message followed by the last six, maybe_compact returns that list, and
\* the turn goes on with it: no error caused by compaction is returned.
C19_SummaryFailureFallsBack ==
    /\ [](CompactionDue
            => \A a \in Answers :
                 SummarizationFails(a)
                    => /\ compact_messages(session, a) = Ok(FirstAndRecent(session))
                       /\ maybe_compact(session, model, SystemPrompt, ToolDefsTokens, a)
                            = Ok(Some(FirstAndRecent(session))))
    /\ [](\A a \in Answers :
            (pc = "turn" /\ session # <<>>)
               => /\ compact_messages(session, a).ok
                  /\ maybe_compact(session, model, SystemPrompt, ToolDefsTokens, a).ok)
    /\ [][(pc = "turn" \/ Summarizing) => ~IsErrResult(result')]_vars
    /\ [][CompactionDue
            => \/ pc' = "summarize" /\ session' = session
               \/ pc' = "acquire" /\ session' = FirstAndRecent(session)]_vars
    /\ [][Summarizing
            => \/ pc' = "summarize" /\ session' = session
               \/ /\ pc' = "acquire"
                  /\ SummaryFailsNow => session' = FirstAndRecent(session)
                  /\ ~SummaryFailsNow => Len(session') = 8]_vars

\* a summarization call has just failed: the turn goes on, without an error, with the
\* first message and the last six
C19_Witness ==
    /\ pc = "acquire"
    /\ attempt = 0
    /\ result = None
    /\ log # <<>>
    /\ log[Len(log)].op = "summarize"
    /\ Len(session) = 7
    /\ request[1].messages = session

\* the summary text a stream delivers: the text deltas before the first MessageEnd
CollectedSummary(a) ==
    LET stop == SummaryStop(a.items)
        upto == IF stop = 0 THEN Len(a.items) ELSE stop - 1
        cat[n \in 0..upto] ==
            IF n = 0 THEN <<>>
            ELSE IF a.items[n].val.type = "TextDelta" THEN cat[n - 1] \o a.items[n].val.text
            ELSE cat[n - 1]
    IN  cat[upto]

\* the summarizer returns non-empty text for this answer
SummarizerReturnsText(a) ==
    /\ a.kind = "stream"
    /\ LET stop == SummaryStop(a.items)
       IN  IF stop = 0 THEN a.ending = "end" ELSE a.items[stop].ok
    /\ StrLen(CollectedSummary(a)) > 0

\* compacted is what C20 describes for this history and this summary text
IsSummarizedHistory(compacted, messages, text) ==
    /\ Len(compacted) = 8
    /\ compacted[1] = messages[1]
    /\ compacted[2].role = User
    /\ compacted[2].content = <<[type |-> "text", text |-> <<SUMMARY_HEADER>> \o text]>>
    /\ \A i \in 1..6 : compacted[2 + i] = messages[Len(messages) - 6 + i]

\* C20: for a history of more than 7 messages and a summarizer that returns non-empty
\* text, compact_messages returns exactly 8 messages: the first message unchanged, one
\* user-role summary message, then the last 6 messages unchanged and in order.
C20_SummarizedHistoryShape ==
    /\ []((pc = "turn" /\ Len(session) > 7)
            => \A a \in Answers :
                 SummarizerReturnsText(a)
                    => /\ compact_messages(session, a).ok
                       /\ IsSummarizedHistory(compact_messages(session, a).val, session,
                                              CollectedSummary(a)))
    /\ [](Summarizing => Len(session) > 7)
    /\ [][(SummaryComesBack /\ ~SummaryFailsNow)
            => IsSummarizedHistory(session', session, summary)]_vars

\* a history of more than 7 messages has just been compacted with a summary: 8 messages,
\* the second of them the summary message
C20_Witness ==
    /\ pc = "acquire"
    /\ attempt = 0
    /\ log # <<>>
    /\ log[Len(log)].op = "summarize"
    /\ Len(session) = 8
    /\ session[2].role = User
    /\ Len(session[2].content) = 1
    /\ session[2].content[1].type = "text"
    /\ Head(session[2].content[1].text) = SUMMARY_HEADER
    /\ Len(session[2].content[1].text) > 1

\* the top of a turn with a history too short for compact_messages to cut
ShortHistoryTurn == pc = "turn" /\ Len(session) <= 7

\* C21: on a history of at most KEEP_RECENT_MESSAGES + 1 = 7 messages compact_messages
\* returns the input list unchanged and makes no call to the provider.
C21_ShortHistoryUntouched ==
    /\ [](ShortHistoryTurn
            => /\ ~CompactCallsProvider(session)
               /\ \A a \in Answers : compact_messages(session, a) = Ok(session))
    /\ [][ShortHistoryTurn
            => /\ session' = session
               /\ chat_calls' = chat_calls
               /\ log' = log
               /\ pc' = "acquire"]_vars

\* compact_messages has been called on a history of 7 messages that is over the
\* threshold: the turn goes on with the same 7 messages and no provider call was made
C21_Witness ==
    /\ pc = "acquire"
    /\ turn = 0
    /\ Len(session) = 7
    /\ NeedsCompaction(session, model, SystemPrompt, ToolDefsTokens)
    /\ maybe_compact(session, model, SystemPrompt, ToolDefsTokens, EmptyAnswer)
         = Ok(Some(session))
    /\ chat_calls = 0
    /\ log = <<>>
    /\ request[1].messages = session

\* C22: whenever maybe_compact returns Some (and the turn replaces the session's
\* messages), the returned list has fewer messages than the list it was given.
C22_CompactionShrinks ==
    pc = "turn"
       => \A a \in Answers :
            LET r == maybe_compact(session, model, SystemPrompt, ToolDefsTokens, a)
            IN  (~SummaryHangs(a) /\ r.ok /\ r.val # None)
                   => Len(r.val[1]) < Len(session)

\* the estimate maybe_compact compares with the threshold, summed message by message
\* and block by block
EstimatedTotal(messages) ==
    LET block(b) ==
            IF b.type = "text" THEN (StrLen(b.text) + 3) \div 4
            ELSE IF b.type = "tool_use"
            THEN (StrLen(b.id) + 3) \div 4 + (StrLen(b.name) + 3) \div 4
                   + (JsonLen(b.input) + 3) \div 4
            ELSE IF b.type = "tool_result"
            THEN (StrLen(b.tool_use_id) + 3) \div 4 + (StrLen(b.content) + 3) \div 4
            ELSE StrLen(b.source.data) \div 750 + 100
        blocks(c) ==
            LET s[n \in 0..Len(c)] == IF n = 0 THEN 0 ELSE s[n - 1] + block(c[n])
            IN  s[Len(c)]
        msgs[n \in 0..Len(messages)] ==
            IF n = 0 THEN 0 ELSE msgs[n - 1] + 4 + blocks(messages[n].content)
    IN  (StrLen(SystemPrompt) + 3) \div 4 + msgs[Len(messages)] + ToolDefsTokens

\* the context limit of the model of the run: 200 000 tokens for the Claude models of
\* the catalogue, 128 000 for its other models and for every name it does not list
ModelContextLimit ==
    IF model \in {"claude-sonnet-4-20250514", "claude-opus-4-20250514",
                  "claude-haiku-3-20250307"}
    THEN 200000
    ELSE 128000

\* 80% of the context limit of the model
CompactionThreshold == (ModelContextLimit \div 5) * 4

\* C23: maybe_compact compacts if and only if the estimate of the system prompt, the
\* messages and the tool definitions is strictly greater than 80% of the context limit;
\* at or below the threshold it returns None, calls no provider and leaves the messages
\* untouched.
C23_CompactionTrigger ==
    /\ [](pc = "turn"
            => \A a \in Answers :
                 LET r == maybe_compact(session, model, SystemPrompt, ToolDefsTokens, a)
                 IN  IF EstimatedTotal(session) > CompactionThreshold
                     THEN r = Ok(Some(compact_messages(session, a).val))
                     ELSE r = Ok(None))
    /\ [][(pc = "turn" /\ EstimatedTotal(session) <= CompactionThreshold)
            => /\ session' = session
               /\ chat_calls' = chat_calls
               /\ log' = log
               /\ pc' = "acquire"]_vars
    /\ [][(pc = "turn" /\ EstimatedTotal(session) > CompactionThreshold /\ pc' = "acquire")
            => \E a \in Answers : session' = compact_messages(session, a).val]_vars
    /\ [][(pc = "turn" /\ EstimatedTotal(session) > CompactionThreshold /\ Len(session) > 7)
            => /\ chat_calls' = chat_calls + 1
               /\ log' = Append(log, [op |-> "summarize", turn |-> turn])]_vars
    /\ [](Summarizing => EstimatedTotal(session) > CompactionThreshold)
    /\ [][Summarizing => (chat_calls' = chat_calls /\ log' = log)]_vars

\* a run on a session estimated at exactly the threshold has gone through the top of
\* its first turn without compaction, and its second turn, now over the threshold,
\* is about to compact
C23_Witness ==
    /\ pc = "turn"
    /\ turn = 1
    /\ session[1] = EdgeSession[1]
    /\ EstimatedTotal(<<session[1]>>) = CompactionThreshold
    /\ EstimatedTotal(session) > CompactionThreshold
    /\ maybe_compact(<<session[1]>>, model, SystemPrompt, ToolDefsTokens, EmptyAnswer)
         = Ok(None)
    /\ maybe_compact(session, model, SystemPrompt, ToolDefsTokens, EmptyAnswer) # Ok(None)

\* poll_next is called when every byte has been delivered and nothing is buffered to
\* return; the byte stream ends in the step that then leaves inner_done set
SseStreamEnds == ~sse_eof /\ sse.pending_events = <<>> /\ inner = <<>>

\* the data received since the last event boundary: the data lines already split off,
\* and the data of a last line that has not been terminated by a newline
SseUnflushedData(st) ==
    LET last == TrimEndMatches(st.buffer, CR)
        p == Find(last, COLON)
        name == IF p = 0 THEN last ELSE SubSeq(last, 1, p - 1)
        value == IF p = 0 THEN <<>> ELSE SubSeq(last, p + 1, Len(last))
    IN  st.current_data
          \o (IF name = S_data
              THEN <<IF value # <<>> /\ value[1] = SPACE THEN Tail(value) ELSE value>>
              ELSE <<>>)

\* C24: when the byte stream ends while data received since the last event boundary has
\* not been emitted, whether or not the last data line ended with a newline, the parser
\* emits exactly one final event carrying all of that data and then ends the stream
\* without an error.
C24_FinalFlush ==
    [][/\ (SseStreamEnds /\ inner_done' /\ SseUnflushedData(sse) # <<>>)
            => /\ sse_out' = Append(sse_out,
                                    Ok([event_type |-> sse.current_event_type,
                                        data |-> Join(SseUnflushedData(sse), <<NL>>)]))
               /\ sse'.current_data = <<>>
               /\ ~sse_eof'
       /\ (SseStreamEnds /\ inner_done' /\ SseUnflushedData(sse) = <<>>)
            => (sse_eof' /\ sse_out' = sse_out)]_vars

\* an SSE event whose data is [DONE] has been processed
OaiDoneProcessed ==
    \E i \in 1..Len(oai_in) : oai_in[i].ok /\ oai_in[i].val.data = <<"[DONE]">>

\* C25: in the OpenAI translator, once an SSE event whose data is [DONE] has been
\* processed the stream ends: nothing is buffered, the inner stream is not read again
\* and no item is emitted afterwards.
C25_DoneEndsStream ==
    /\ [](OaiDoneProcessed => (oai_eof /\ oai.pending = <<>>))
    /\ [][OaiDoneProcessed => (oai_out' = oai_out /\ oai_in' = oai_in /\ oai_eof')]_vars

\* [DONE] has been processed after a text chunk, with room left for further SSE events:
\* the stream has ended with the text delta as its only item
C25_Witness ==
    /\ OaiDoneProcessed
    /\ oai_eof
    /\ Len(oai_in) = 2
    /\ Len(oai_in) < MaxOaiEvents
    /\ oai_out = <<Ok(TextDelta(<<"Hello">>))>>

\* the accumulated argument string is valid JSON
ValidArgs(args) == \E d \in JsonDocs : d[1] = args

\* the payload that stands for an argument string that does not parse
RawArgsPayload(args) ==
    [t |-> "obj",
     f |-> { <<"_parse_error", [t |-> "str", s |-> serde_error(args)]>>,
             <<"_raw_args", [t |-> "str", s |-> args]>> }]

\* the items emitted for a flush hold exactly one ToolUse for the call of this stream
\* index, with its id and name; its input is the parsed arguments, or the raw-argument
\* payload when they do not parse
EmittedOnce(new, frs) ==
    LET id == LastOf(frs, "id")
        args == ArgsOf(frs)
        hits == { i \in 1..Len(new) : IsOk(new[i], "ToolUse") /\ new[i].val.id = id }
    IN  /\ Cardinality(hits) = 1
        /\ \A i \in hits :
              /\ new[i].val.name = LastOf(frs, "name")
              /\ new[i].val.input =
                    IF ValidArgs(args)
                    THEN (CHOOSE d \in JsonDocs : d[1] = args)[2]
                    ELSE RawArgsPayload(args)

\* C26: in the OpenAI translator a tool call whose accumulated argument string is not
\* valid JSON is still emitted at flush time as exactly one ToolUse with its id and name,
\* whose input carries the raw argument string and the parse error; the stream does not
\* fail and the other tool calls of the flush are emitted unaffected.
C26_UnparsableArgsStillEmitted ==
    [][(Len(oai_in') = Len(oai_in) + 1 /\ oai_in'[Len(oai_in')] = Ok(OaiEv(O_FINISH_TOOLS)))
         => LET in == SinceFlush(oai_in)
                new == NewItems(OaiProduced, OaiProduced')
                flushed == { index \in 0..1 : FragmentsOf(in, index) # <<>> }
            IN  /\ NoErr(new)
                /\ ~oai'.done
                /\ Count(new, "ToolUse") = Cardinality(flushed)
                /\ \A index \in flushed : EmittedOnce(new, FragmentsOf(in, index))
                /\ IsOk(new[Len(new)], "MessageEnd")]_vars

\* call c0 has received only the first half of its arguments and call c1 a complete
\* object: the flush has emitted c0 with the raw-argument payload, then c1, then the
\* MessageEnd
C26_Witness ==
    /\ oai_in = <<Ok(OaiEv(O_TC0_OPEN)), Ok(OaiEv(O_TC1)), Ok(OaiEv(O_FINISH_TOOLS))>>
    /\ ~ValidArgs(<<ARG_OPEN>>)
    /\ OaiProduced = <<Ok(ToolUse(<<"c0">>, <<"bash">>, RawArgsPayload(<<ARG_OPEN>>))),
                       Ok(ToolUse(<<"c1">>, <<"read">>, JObj({}))),
                       Ok(MessageEnd(ToolUseStop))>>

\* the byte stream has not failed
OllNoReadError ==
    \A i \in 1..Len(oll_out) :
       oll_out[i] # Err(<<"Ollama stream read error: ", "connection reset">>)

\* the text deltas due for the chunks of a body, in order
OllTexts(body) ==
    LET cs == OllChunksToDone(OllSplit(body))
        cat[n \in 0..Len(cs)] ==
            IF n = 0 THEN <<>>
            ELSE IF cs[n].message.content # <<>>
            THEN Append(cat[n - 1], Ok(TextDelta(cs[n].message.content)))
            ELSE cat[n - 1]
    IN  cat[Len(cs)]

\* C27: when an Ollama byte stream ends without a line with done:true having been
\* processed, the translator's last item is an error, emitted after the text deltas of
\* the well-formed lines; the stream never ends cleanly and no MessageEnd is emitted.
\* Malformed lines are skipped and change nothing of this.
C27_EndWithoutDoneIsError ==
    /\ ~HasDone(OllDelivered) => Count(OllProduced, "MessageEnd") = 0
    /\ (oll_eof /\ OllNoReadError /\ ~HasDone(oll_src))
          => /\ oll_out # <<>>
             /\ oll_out = OllTexts(oll_src)
                            \o <<Err(<<"Ollama stream ended without final response">>)>>
             /\ oll.pending = <<>>

\* a body of a text line, a malformed line and an unterminated text line, with no
\* done:true line, has been translated to its end: two text deltas, then the error
C27_Witness ==
    /\ oll_eof
    /\ oll_src = <<L_TEXT_1, L_TEXT_2, "\n", L_BAD_1, "\n", L_TEXT_1, L_TEXT_2>>
    /\ oll_out = <<Ok(TextDelta(<<"Hi">>)), Ok(TextDelta(<<"Hi">>)),
                   Err(<<"Ollama stream ended without final response">>)>>

\* an `error` SSE event has been processed
AnthErrorProcessed == \E i \in 1..Len(anth_in) : anth_in[i] = Ok(EvError)

\* the step processes an `error` SSE event
AnthTakesError == Len(anth_in') = Len(anth_in) + 1 /\ anth_in'[Len(anth_in')] = Ok(EvError)

\* C28: in the Anthropic translator an `error` SSE event makes the stream yield exactly
\* one error value, after the events already produced from the earlier SSE events, and
\* then end: no later SSE event is read and nothing is yielded afterwards.
C28_ErrorEventEndsStream ==
    /\ [][AnthTakesError
            => /\ NoErr(anth_out)
               /\ anth.pending = <<>>
               /\ anth_out' = Append(anth_out, Err(<<"Anthropic stream error: ", "boom">>))
               /\ anth'.done
               /\ anth'.pending = <<>>]_vars
    /\ [][AnthErrorProcessed
            => (anth_out' = anth_out /\ anth_in' = anth_in /\ anth'.pending = <<>>
                  /\ anth_eof')]_vars

\* an `error` event has followed a text delta and a MessageEnd: the stream has yielded
\* them, then the error, and has ended with room left for further SSE events
C28_Witness ==
    /\ anth_eof
    /\ Len(anth_in) = 3
    /\ Len(anth_in) < MaxAnthEvents
    /\ anth_in[3] = Ok(EvError)
    /\ Len(anth_out) = 3
    /\ IsOk(anth_out[1], "TextDelta")
    /\ IsOk(anth_out[2], "MessageEnd")
    /\ ~anth_out[3].ok

\* a list of events without its Thinking events
WithoutThinking(events) ==
    LET cat[n \in 0..Len(events)] ==
            IF n = 0 THEN <<>>
            ELSE IF events[n].type = "Thinking" THEN cat[n - 1]
            ELSE Append(cat[n - 1], events[n])
    IN  cat[Len(events)]

\* the consumption loop is about to receive a Thinking event
ThinkingArrives ==
    /\ pc = "stream"
    /\ stream[1].items # <<>>
    /\ Head(stream[1].items).ok
    /\ Head(stream[1].items).val.type = "Thinking"

\* C29: Thinking events do not influence what the turn loop records.  A Thinking event
\* changes nothing of the run but the position in the stream, the buffers of a turn are
\* those of the received events without the Thinking events, and the turn ends with
\* the session message, the decision and the returned text, tool-call count and usage
\* that the same events without the Thinking events give.
C29_ThinkingNotRecorded ==
    /\ [][ThinkingArrives
            => UNCHANGED <<pc, turn, session, total_tool_calls, usage, request, attempt,
                           text_buf, tool_calls, stop_reason, exec_i, result, log,
                           chat_calls>>]_vars
    /\ [](pc = "stream"
            => /\ text_buf = ReceivedText(WithoutThinking(consumed))
               /\ tool_calls = ReceivedCalls(WithoutThinking(consumed))
               /\ stop_reason = ReceivedStop(WithoutThinking(consumed)))
    /\ [][(StreamStalls \/ StreamEnds)
            => LET events == WithoutThinking(consumed)
               IN  /\ session' = Append(session, ReceivedMessage(events))
                   /\ IF ReceivedCalls(events) # <<>> /\ ReceivedStop(events) = ToolUseStop
                      THEN pc' = "exec" /\ result' = None
                      ELSE /\ pc' = "done"
                           /\ result' = Some(Ok([text |-> ReceivedText(events),
                                                 tool_calls |-> total_tool_calls,
                                                 usage |-> usage]))]_vars

\* a turn whose stream began with a Thinking event has ended: the session's last message
\* and the returned text hold the two text deltas only
C29_Witness ==
    /\ pc = "done"
    /\ IsOkResult(result)
    /\ Len(consumed) > 1
    /\ consumed[1] = Thinking(<<"hm">>)
    /\ result[1].val.text = <<"Hello ", "world!">>
    /\ session[Len(session)] = AssistantMessage(<<Text(<<"Hello ", "world!">>)>>)

\* the run has returned a result from a turn that ended without tool use, and no turn of
\* it has compacted: the messages of its last request were not over the threshold
PlainRunDone ==
    /\ pc = "done"
    /\ IsOkResult(result)
    /\ turn < MAX_AGENT_TURNS
    /\ ~NeedsCompaction(request[1].messages, model, SystemPrompt, ToolDefsTokens)
    /\ \A j \in 1..Len(log) : log[j].op # "summarize"

\* the number of tool calls executed in turn i
CallsOfTurn(i) == Cardinality({ j \in 1..Len(log) : log[j].op = "execute" /\ log[j].turn = i })

\* the session the run was started on
StartedOn(s) ==
    /\ Len(s) <= Len(session)
    /\ SubSeq(session, 1, Len(s)) = s
    /\ ~NeedsCompaction(s, model, SystemPrompt, ToolDefsTokens)

\* C30: in a run with no compaction and no error, where k turns end with stop reason
\* ToolUse and n_i >= 1 calls and the following turn ends without tool use, the session
\* grows by the sum of (1 + n_i) plus 1 messages: one assistant message per turn and one
\* user tool-result message per call; the returned tool_calls is the sum of the n_i.
\* With k = 1, n_1 = 1 and one initial message: 4 messages and tool_calls = 1.
C30_SessionGrowth ==
    PlainRunDone
       => LET k == turn
              calls == Cardinality({ j \in 1..Len(log) : log[j].op = "execute" })
          IN  /\ \A i \in 0..(k - 1) : CallsOfTurn(i) >= 1
              /\ CallsOfTurn(k) = 0
              /\ result[1].val.tool_calls = calls
              /\ \E s \in Sessions \cup EdgeSessions \cup WideEdgeSessions \cup ImageSessions :
                    /\ StartedOn(s)
                    /\ Len(session) = Len(s) + (k + calls) + 1
                    /\ Cardinality({ p \in (Len(s) + 1)..Len(session) :
                                       session[p].role = Assistant }) = k + 1
                    /\ Cardinality({ p \in (Len(s) + 1)..Len(session) :
                                       /\ session[p].role = User
                                       /\ Len(session[p].content) = 1
                                       /\ session[p].content[1].type = "tool_result" })
                          = calls
                    /\ (k = 1 /\ calls = 1 /\ Len(s) = 1)
                          => (Len(session) = 4 /\ result[1].val.tool_calls = 1)

\* one turn with one tool call, then a text turn, on a session of one message: user,
\* assistant with the ToolUse, user with the ToolResult, assistant with the text
C30_Witness ==
    /\ PlainRunDone
    /\ turn = 1
    /\ CallsOfTurn(0) = 1
    /\ session[1] = FreshSession[1]
    /\ Len(session) = 4
    /\ session[2].role = Assistant
    /\ session[2].content[Len(session[2].content)].type = "tool_use"
    /\ session[3].role = User
    /\ session[3].content[1].type = "tool_result"
    /\ session[4] = AssistantMessage(<<Text(<<"Hello ", "world!">>)>>)
    /\ result[1].val.tool_calls = 1

\* s is a prefix of t
IsPrefix(s, t) == Len(s) <= Len(t) /\ SubSeq(t, 1, Len(s)) = s

\* run_agent_loop has been called and has not returned to its caller
RunInProgress == pc \notin {"prompt", "compact"}

\* the step belongs to a compaction: the top of a turn that is over the threshold, or
\* the reading of the summary stream
CompactionStep ==
    \/ pc = "turn" /\ EstimatedTotal(session) > CompactionThreshold
    \/ Summarizing

\* C31: during run_agent_loop the session's message list changes only by appending,
\* except when compaction replaces the whole list in one step: a step that is not a
\* compaction leaves every message in place and adds at most one at the end, and a
\* compaction installs the complete compacted list at once.
C31_AppendOnlyBetweenCompactions ==
    /\ [][(RunInProgress /\ ~CompactionStep)
            => /\ IsPrefix(session, session')
               /\ Len(session') <= Len(session) + 1]_vars
    /\ [][(CompactionStep /\ session' # session)
            => \/ session' = FirstAndRecent(session)
               \/ Summarizing /\ IsSummarizedHistory(session', session, summary)]_vars

\* a run on one initial message has appended the assistant message of a tool turn, the
\* tool result and the assistant message of a second turn, leaving the first in place
C31_Witness ==
    /\ pc = "done"
    /\ IsOkResult(result)
    /\ \A j \in 1..Len(log) : log[j].op # "summarize"
    /\ IsPrefix(FreshSession, session)
    /\ Len(session) = 4
    /\ session[3].content[1].type = "tool_result"
    /\ session[4].role = Assistant

\* pat occurs somewhere in s
Occurs(pat, s) == \E i \in 1..Len(s), j \in 1..Len(s) : SubSeq(s, i, j) = pat

\* the operators the claim lists: ; && | backtick $( newline << <( >(
ListedOperators ==
    { <<";">>, <<"&", "&">>, <<"|">>, <<BACKTICK>>, <<"$", "(">>, <<"\n">>,
      <<"<", "<">>, <<"<", "(">>, <<">", "(">> }

ContainsListed(cmd) == \E pat \in ListedOperators : Occurs(pat, cmd)

\* the positions of cmd that hold no whitespace
Inked(cmd) == { i \in 1..Len(cmd) : cmd[i] \notin WHITESPACE }

\* cmd without the whitespace around it
Trimmed(cmd) ==
    IF Inked(cmd) = {} THEN <<>>
    ELSE LET i == CHOOSE i \in Inked(cmd) : \A k \in Inked(cmd) : i <= k
             j == CHOOSE j \in Inked(cmd) : \A k \in Inked(cmd) : k <= j
         IN  SubSeq(cmd, i, j)

\* the first token of cmd: its first maximal run of characters that are no whitespace
TheFirstToken(cmd) ==
    IF Inked(cmd) = {} THEN <<>>
    ELSE LET i == CHOOSE i \in Inked(cmd) : \A k \in Inked(cmd) : i <= k
             j == CHOOSE j \in i..Len(cmd) :
                      /\ i..j \subseteq Inked(cmd)
                      /\ j + 1 \notin Inked(cmd)
         IN  SubSeq(cmd, i, j)

\* p is what may follow the last component of a path: separators, and "." pieces
IsTrailer(p) ==
    \A i \in 1..Len(p) :
        /\ p[i] \in {"/", "."}
        /\ p[i] = "." => (i > 1 /\ p[i - 1] = "/")

\* the binary name of a token: its last path component, the token itself when the
\* path ends in no named component
BinaryNameOf(tok) ==
    LET named ==
            { c \in (1..Len(tok)) \X (1..Len(tok)) :
                /\ c[1] <= c[2]
                /\ \A k \in c[1]..c[2] : tok[k] # "/"
                /\ c[1] = 1 \/ tok[c[1] - 1] = "/"
                /\ c[2] = Len(tok) \/ tok[c[2] + 1] = "/"
                /\ SubSeq(tok, c[1], c[2]) \notin { <<".">>, <<".", ".">> }
                /\ IsTrailer(SubSeq(tok, c[2] + 1, Len(tok))) }
    IN  IF named = {} THEN tok
        ELSE LET c == CHOOSE c \in named : TRUE IN SubSeq(tok, c[1], c[2])

\* a and b are the same up to the case of their letters
SameIgnoringCase(a, b) ==
    /\ Len(a) = Len(b)
    /\ \A i \in 1..Len(a) :
          \/ a[i] = b[i]
          \/ \E k \in 1..Len(UPPERCASE) : {a[i], b[i]} = {UPPERCASE[k], LOWERCASE[k]}

\* a call under "allowlist" has returned
AllowlistDecided == allowed # None /\ security = "allowlist"

\* the decision with the letters compared as the given predicate says
AllowlistDecisionBy(same(_, _)) ==
    AllowlistDecided =>
        allowed[1] =
            /\ ~ContainsListed(command)
            /\ ~Occurs(<<"\r">>, command)
            /\ \E k \in 1..Len(allowlist) :
                  \/ same(allowlist[k], BinaryNameOf(TheFirstToken(command)))
                  \/ /\ allowlist[k] # <<>>
                     /\ allowlist[k][Len(allowlist[k])] = " "
                     /\ Len(allowlist[k]) <= Len(Trimmed(command))
                     /\ same(SubSeq(Trimmed(command), 1, Len(allowlist[k])), allowlist[k])

Equal(a, b) == a = b

\* C32: under security "allowlist", is_command_allowed returns false for every command
\* that contains one of ; && | backtick $( newline (line feed or carriage return) << <(
\* >( whatever the allowlist; for every other command it returns true exactly when some
\* entry equals the first token's binary name or ends with a space and is a prefix of
\* the command (the whitespace around the command left aside).
C32_AllowlistDecision == AllowlistDecisionBy(Equal)

\* what the code decides: the same with the case of the letters ignored
AllowlistDecisionIgnoringCase == AllowlistDecisionBy(SameIgnoringCase)


\* C33: a first Ctrl+C never terminates the process and lets the in-flight turn be
\* abandoned: once it has been handled the turn loop stops its work, it makes no further
\* provider call and executes no further tool.  A second Ctrl+C terminates the process
\* at once, whatever the turn loop is doing.
C33_InterruptContract ==
    /\ [][ctrl_c_count = 0 => exit_code' = None]_vars
    /\ [][(ctrl_c_count >= 1 /\ handler = None) => log' = log]_vars
    /\ [][(handler # None /\ handler[1] >= 1 /\ handler' = None)
            => exit_code' = Some(130)]_vars


\* the number of ToolUse events with the given id and name among the items
UsesOf(items, id, name) ==
    Cardinality({ k \in 1..Len(items) :
                    IsOk(items[k], "ToolUse") /\ items[k].val.id = id
                        /\ items[k].val.name = name })

\* the OpenAI step processes a chunk that carries the given finish_reason events
OaiFinishStep(finishes) ==
    /\ Len(oai_in') = Len(oai_in) + 1
    /\ oai_in'[Len(oai_in')] \in finishes

\* the OpenAI step emits every accumulated call once and leaves none accumulated
OaiFlushesAll ==
    LET new == NewItems(OaiProduced, OaiProduced')
    IN  /\ \A idx \in DOMAIN oai.tool_calls :
              UsesOf(new, oai.tool_calls[idx][1], oai.tool_calls[idx][2]) = 1
        /\ Count(new, "ToolUse") = Cardinality(DOMAIN oai.tool_calls)
        /\ oai'.tool_calls = EmptyMap

\* the Anthropic step processes a content_block_stop while a tool call is open
AnthStopStep ==
    /\ Len(anth_in') = Len(anth_in) + 1
    /\ anth_in'[Len(anth_in')] = Ok(EvBlockStop)
    /\ anth.current_tool_id # None

\* the Anthropic step emits the open call once and leaves none open
AnthEmitsOpenCall ==
    LET new == NewItems(AnthProduced, AnthProduced')
    IN  /\ Count(new, "ToolUse") = 1
        /\ \E k \in 1..Len(new) :
              IsOk(new[k], "ToolUse") /\ new[k].val.id = anth.current_tool_id[1]
        /\ anth'.current_tool_id = None
        /\ anth'.current_tool_name = None

\* the Ollama step processes the done:true line: the stream finishes without an error
OllDoneStep ==
    /\ ~oll.finished
    /\ oll'.finished
    /\ NoErr(NewItems(OllProduced, OllProduced'))

\* the Ollama step emits every call of the chunks up to the done:true line once and
\* leaves none accumulated
OllEmitsAll ==
    LET uses == ToolUses(NewItems(OllProduced, OllProduced'))
        calls == OllCalls(OllChunksToDone(OllSplit(oll_src)))
    IN  /\ Len(uses) = Len(calls)
        /\ \A k \in 1..Len(uses) : uses[k].name = calls[k].function.name
        /\ Count(OllProduced, "ToolUse") = 0
        /\ oll'.accumulated_tool_calls = <<>>

\* C34 as stated: in every translator each pending tool call is emitted as exactly one
\* ToolUse when the provider signals completion (Anthropic content_block_stop, OpenAI any
\* finish_reason, Ollama done:true), and afterwards the accumulator holds no tool call.
C34_EmittedAtCompletion ==
    /\ [][AnthStopStep => AnthEmitsOpenCall]_vars
    /\ [][OaiFinishStep({Ok(OaiEv(O_FINISH_TOOLS)), Ok(OaiEv(O_FINISH_STOP))})
            => OaiFlushesAll]_vars
    /\ [][OllDoneStep => OllEmitsAll]_vars


\* the step ends the consumption of a turn's stream without an error
ConsumptionEndsWell == pc = "stream" /\ pc' # "stream" /\ ~IsErrResult(result')

\* the blocks of the given type among the content blocks, in order
BlocksOf(content, ty) ==
    LET sel[n \in 0..Len(content)] ==
            IF n = 0 THEN <<>>
            ELSE IF content[n].type = ty THEN Append(sel[n - 1], content[n])
            ELSE sel[n - 1]
    IN  sel[Len(content)]

\* C35: a turn whose consumption ends without an error appends exactly one assistant
\* message: nothing is appended while the stream is consumed, and the step that ends the
\* consumption appends one message whose content is one Text block holding all TextDelta
\* texts concatenated in arrival order (no Text block when that text is empty) followed
\* by one ToolUse block for each ToolUse event, in emission order.
C35_OneAssistantMessagePerTurn ==
    [][/\ (pc = "stream" /\ pc' = "stream") => session' = session
       /\ ConsumptionEndsWell
            => /\ Len(session') = Len(session) + 1
               /\ SubSeq(session', 1, Len(session)) = session
               /\ LET m == session'[Len(session')]
                      texts == BlocksOf(m.content, "text")
                      uses == BlocksOf(m.content, "tool_use")
                      calls == ReceivedCalls(consumed)
                  IN  /\ m.role = Assistant
                      /\ m.content = texts \o uses
                      /\ Len(texts) = IF StrLen(ReceivedText(consumed)) = 0 THEN 0 ELSE 1
                      /\ \A k \in 1..Len(texts) : texts[k].text = ReceivedText(consumed)
                      /\ Len(uses) = Len(calls)
                      /\ \A k \in 1..Len(uses) :
                            /\ uses[k].id = calls[k].id
                            /\ uses[k].name = calls[k].name
                            /\ uses[k].input = calls[k].input]_vars

\* a turn that received text and two ToolUse events has appended its assistant message:
\* the Text block, then the two ToolUse blocks in the order of the events
C35_Witness ==
    /\ pc = "exec"
    /\ exec_i = 1
    /\ Len(ReceivedCalls(consumed)) = 2
    /\ StrLen(ReceivedText(consumed)) > 0
    /\ Len(session[Len(session)].content) = 3
    /\ session[Len(session)].content[1].type = "text"
    /\ session[Len(session)].content[3].id = ReceivedCalls(consumed)[2].id


\* the text of the whole response
SseText == from_utf8_lossy(sse_src)

\* the positions of the line feeds of a text: one for each terminated line
LineEnds(text) == { i \in 1..Len(text) : text[i] = NL }

\* the line that the line feed at position p terminates, without its carriage returns
LineAt(text, p) ==
    LET q == Max({0} \cup { i \in LineEnds(text) : i < p })
    IN  TrimEndMatches(SubSeq(text, q + 1, p - 1), CR)

\* the blank lines of a text
Blanks(text) == { p \in LineEnds(text) : LineAt(text, p) = <<>> }

\* the line is a line of the named field
FieldIs(line, name) == line = name \/ StartsWith(line, name \o <<COLON>>)

\* the value of a line of the named field: what follows the colon, less one leading space
FieldValue(line, name) ==
    IF line = name THEN <<>>
    ELSE LET v == SubSeq(line, Len(name) + 2, Len(line))
         IN  IF v # <<>> /\ v[1] = SPACE THEN Tail(v) ELSE v

\* the lines of the named field between the positions a and b
FieldLines(text, name, a, b) ==
    { p \in LineEnds(text) : a < p /\ p < b /\ FieldIs(LineAt(text, p), name) }

\* the elements of a set of numbers in ascending order
Ascending(S) ==
    [k \in 1..Cardinality(S) |-> CHOOSE x \in S : Cardinality({ y \in S : y < x }) = k - 1]

\* the blank line before b, 0 if there is none
PrevBlank(text, b) == Max({0} \cup { p \in Blanks(text) : p < b })

\* the blank lines with at least one data line since the blank line before them
Emitting(text) ==
    { b \in Blanks(text) : FieldLines(text, S_data, PrevBlank(text, b), b) # {} }

\* the data lines since the blank line before b, joined with line feeds in order
DataOf(text, b) ==
    LET ps == Ascending(FieldLines(text, S_data, PrevBlank(text, b), b))
    IN  Join([k \in 1..Len(ps) |-> FieldValue(LineAt(text, ps[k]), S_data)], <<NL>>)

\* the value of the last event line between a and b, None if there is none
TypeOf(text, a, b) ==
    LET es == FieldLines(text, S_event, a, b)
    IN  IF es = {} THEN None ELSE Some(FieldValue(LineAt(text, Max(es)), S_event))

\* the response has been parsed to its end, delivered in chunks that end between
\* characters, without a transport failure
SseParsedWhole == sse_eof /\ NoErr(sse_out) /\ ~sse_torn

C37_EveryBlankLineResetsType ==
    SseParsedWhole
        => LET text == SseText
               bs == Ascending(Emitting(text))
               got == OkVals(sse_out)
           IN  \A k \in 1..Len(bs) :
                  k <= Len(got)
                     => got[k].event_type = TypeOf(text, PrevBlank(text, bs[k]), bs[k])

\* finishing the delivery in one chunk from here yields the events of the whole response
\* delivered in one chunk
SseRestInOneChunk ==
    OkVals(sse_out) \o SseRun(sse, IF inner = <<>> THEN <<>> ELSE <<inner>>)
        = SseRun(SseNew, <<sse_src>>)

\* C40: for a byte stream whose chunks end between characters, the parser yields the
\* same events whatever the chunking: at every point of a delivery that has not split a
\* character, the events yielded so far followed by those of the rest delivered in one
\* chunk are the events of the whole stream delivered in one chunk, and so are the events
\* yielded at the end.
C40_ChunkingAtCharacterBoundaries ==
    /\ (~sse_eof /\ NoErr(sse_out) /\ ~sse_torn) => SseRestInOneChunk
    /\ SseParsedWhole => OkVals(sse_out) = SseRun(SseNew, <<sse_src>>)

\* the delivery has stopped inside a field name, after an event with a two-byte
\* character has been yielded and between the carriage return and the line feed
\* of "data:x\r\n\r\n": the buffer holds the rest of the line
C40_Witness ==
    /\ ~sse_torn
    /\ ~sse_eof
    /\ Len(sse_out) = 1
    /\ sse_out[1] = Ok(SseEvent(None, <<233>>))
    /\ sse.buffer = <<100, 97, 116, 97, COLON, B_x, CR>>
    /\ inner = <<NL, CR, NL>>


\* the turn has consumed, from the Anthropic translator, the events of a response with a
\* completed tool_use block, a message_delta with stop_reason "tool_use" and
\* message_stop, and its stream has ended
AnthropicToolResponseConsumed ==
    /\ provider = "anthropic"
    /\ StreamEnds
    /\ ReceivedCalls(consumed) # <<>>
    /\ \E i \in 1..Len(consumed) :
          consumed[i].type = "MessageEnd" /\ consumed[i].stop_reason = ToolUseStop

\* C38: when the turn loop has consumed the events of an Anthropic response with a
\* completed tool_use block, a message_delta with stop_reason "tool_use" and then
\* message_stop, the stop reason it decides on is ToolUse and it goes on to execute the
\* buffered tool call.
C38_AnthropicToolUseExecuted ==
    [][AnthropicToolResponseConsumed
          => /\ stop_reason = ToolUseStop
             /\ pc' = "exec"
             /\ result' = None]_vars


\* block k of message i is a ToolUse block of an assistant message with no ToolResult
\* of its id in a later user message
Unanswered(msgs, i, k) ==
    /\ msgs[i].role = Assistant
    /\ msgs[i].content[k].type = "tool_use"
    /\ ~\E j \in (i + 1)..Len(msgs) :
          /\ msgs[j].role = User
          /\ \E m \in 1..Len(msgs[j].content) :
                /\ msgs[j].content[m].type = "tool_result"
                /\ msgs[j].content[m].tool_use_id = msgs[i].content[k].id

\* C39: whenever run_agent_loop has returned successfully, every ToolUse block of every
\* assistant message of the session is followed later in the session by a user message
\* holding a ToolResult with the same id.
C39_EveryToolUseHasResult ==
    (pc = "done" /\ IsOkResult(result))
        => \A i \in 1..Len(session) : \A k \in 1..Len(session[i].content) :
              ~Unanswered(session, i, k)

=============================================================================
